---- MODULE Spec2Model ----
(***************************************************************************)
(* Repository synchronisation, local cache and tree reconstruction of      *)
(* agentic-support: the Dexie cache store (lib/github-db.ts), the file     *)
(* sync and issue sync services and the provider client.                   *)
(*                                                                         *)
(* Strings that the code takes apart (paths) are sequences of one-letter   *)
(* strings; all other strings are TLA+ strings.                            *)
(***************************************************************************)
EXTENDS Integers, Sequences, FiniteSets, TLC

VARIABLES
    repos,       \* table repos: repository id -> GitHubRepo record or NoRepo
    files,       \* table files: the GitHubFile records in primary key order
    issues,      \* table issues: the GitHubIssueDB records in primary key order
    remoteTree,  \* what the hosting API holds: repository id -> tree items
    remoteIssues,\* what the hosting API holds: issue state -> number of issues
    fsync,       \* syncRepository calls: caller -> position and locals
    isync,       \* the syncRepositoryIssues call: position and locals
    reader,      \* what the last getFileTree call of a reader returned
    firstSync,   \* repository id -> its completed syncs (counted up to 2) and
                 \* the files its first completed sync left in the store
    last,        \* the operation that took the last step
    treeIn,      \* buildFileTree: the flat GitHubFile[] argument
    treeOut,     \* buildFileTree: the value returned (NoTree before the call)
    treePc,      \* "input" before the call, "built" after it
    multi,       \* the syncMultipleRepositories call: position and locals
    query,       \* the last githubDB.getIssues call: arguments and result
    search,      \* searchCodeContext: the project's files, arguments, result
    analysis,    \* analyzeUserStatement: what it found and its confidence
    pcall,       \* the provider client call: position and requests sent
    select,      \* MonacoEditor.handleFileSelect: position and locals
    clock,       \* the time new Date() returns
    stats,       \* what the last getSyncStats call returned
    section      \* extractRelevantSection: the file, the terms, the results

storeVars == <<repos, files, issues>>

treeVars == <<treeIn, treeOut, treePc>>

viewVars == <<pcall, select, clock, stats, section>>

callVars == <<multi, query, search, analysis, viewVars>>

vars == <<repos, files, issues, remoteTree, remoteIssues, fsync, isync, reader,
          firstSync, last, treeIn, treeOut, treePc, multi, query, search,
          analysis>>

(***************************************************************************)
(* Strings                                                                 *)
(***************************************************************************)
LowerAlphabet ==
    <<"a","b","c","d","e","f","g","h","i","j","k","l","m",
      "n","o","p","q","r","s","t","u","v","w","x","y","z">>

UpperAlphabet ==
    <<"A","B","C","D","E","F","G","H","I","J","K","L","M",
      "N","O","P","Q","R","S","T","U","V","W","X","Y","Z">>

IndexIn(seq, c) ==
    IF \E i \in 1..Len(seq) : seq[i] = c
    THEN CHOOSE i \in 1..Len(seq) : seq[i] = c
    ELSE 0

IsUpper(c) == IndexIn(UpperAlphabet, c) > 0

\* The punctuation the paths of the model use, in collation order.
Punctuation == <<"_", "-", ".", "/">>

\* String.prototype.localeCompare compares by collation keys, not by code
\* units: punctuation sorts before letters, letters sort alphabetically
\* whatever their case (primary weight), and at equal primary keys a lower
\* case letter sorts before its upper case form (tertiary weight).
PrimaryWeight(c) ==
    IF IndexIn(Punctuation, c) > 0 THEN IndexIn(Punctuation, c)
    ELSE IF IsUpper(c) THEN Len(Punctuation) + IndexIn(UpperAlphabet, c)
    ELSE Len(Punctuation) + IndexIn(LowerAlphabet, c)

TertiaryWeight(c) == IF IsUpper(c) THEN 1 ELSE 0

RECURSIVE CompareKeys(_, _, _)
\* Lexicographic comparison of two weight sequences from position i on:
\* -1, 0 or 1; a proper prefix sorts first.
CompareKeys(ka, kb, i) ==
    IF i > Len(ka) /\ i > Len(kb) THEN 0
    ELSE IF i > Len(ka) THEN -1
    ELSE IF i > Len(kb) THEN 1
    ELSE IF ka[i] < kb[i] THEN -1
    ELSE IF ka[i] > kb[i] THEN 1
    ELSE CompareKeys(ka, kb, i + 1)

PrimaryKey(a) == [i \in 1..Len(a) |-> PrimaryWeight(a[i])]

TertiaryKey(a) == [i \in 1..Len(a) |-> TertiaryWeight(a[i])]

LocaleCompare(a, b) ==
    LET p == CompareKeys(PrimaryKey(a), PrimaryKey(b), 1)
    IN  IF p # 0 THEN p ELSE CompareKeys(TertiaryKey(a), TertiaryKey(b), 1)

\* a is a strict string prefix of b
StrictPrefix(a, b) == Len(a) < Len(b) /\ SubSeq(b, 1, Len(a)) = a

\* Index of the last "/" of a path, 0 when it has none.
LastSlash(path) ==
    IF \E i \in 1..Len(path) : path[i] = "/"
    THEN CHOOSE i \in 1..Len(path) :
            path[i] = "/" /\ \A j \in (i + 1)..Len(path) : path[j] # "/"
    ELSE 0

\* path.split('/') and the last part
getFileName(path) == SubSeq(path, LastSlash(path) + 1, Len(path))

\* A parent path that is the first part of the path only.
getParentPathFirstPart(path) ==
    IF LastSlash(path) = 0 THEN <<>>
    ELSE SubSeq(path, 1, (CHOOSE i \in 1..Len(path) :
                            path[i] = "/" /\ \A j \in 1..(i - 1) : path[j] # "/") - 1)

\* path.split('/'); '' for a single part, else all parts but the last joined
getParentPath(path) ==
    IF LastSlash(path) = 0 THEN <<>> ELSE SubSeq(path, 1, LastSlash(path) - 1)

(***************************************************************************)
(* Tree reconstruction: GitHubDatabase.buildFileTree                       *)
(***************************************************************************)
RECURSIVE InsertSorted(_, _)
\* Insert f after every element that does not sort after it (stable).
InsertSorted(sorted, f) ==
    IF sorted = <<>> THEN <<f>>
    ELSE IF LocaleCompare(f.path, sorted[Len(sorted)].path) >= 0
         THEN Append(sorted, f)
         ELSE Append(InsertSorted(SubSeq(sorted, 1, Len(sorted) - 1), f),
                     sorted[Len(sorted)])

RECURSIVE SortByPathFrom(_, _, _)
SortByPathFrom(list, i, acc) ==
    IF i > Len(list) THEN acc
    ELSE SortByPathFrom(list, i + 1, InsertSorted(acc, list[i]))

\* A list left in the order it was given (what a missing sort would do).
SortByPathOmitted(list) == list

\* files.sort((a, b) => a.path.localeCompare(b.path)): a stable sort
SortByPath(list) == SortByPathFrom(list, 1, <<>>)

\* pathMap.get(p) while entry i is processed: the node of the last entry
\* up to and including i with that path (0: undefined).
PathMapGet(sorted, i, p) ==
    IF \E j \in 1..i : sorted[j].path = p
    THEN CHOOSE j \in 1..i :
            sorted[j].path = p /\ \A k \in (j + 1)..i : sorted[k].path # p
    ELSE 0

NoTree == [nodes |-> <<>>, tree |-> <<>>, children |-> <<>>]

RECURSIVE BuildFrom(_, _, _, _)
\* The for loop of buildFileTree over the sorted entries. Nodes are named by
\* their position in the sorted list; tree is the root list and children[i]
\* the children array of node i (<<>> and never appended to for a file).
BuildFrom(sorted, i, tree, children) ==
    IF i > Len(sorted) THEN [nodes |-> sorted, tree |-> tree, children |-> children]
    ELSE LET file == sorted[i]
             parent == PathMapGet(sorted, i, file.parentPath)
         IN  IF file.parentPath = <<>> \/ file.parentPath = <<"/">>
             THEN BuildFrom(sorted, i + 1, Append(tree, i), children)
             ELSE IF parent # 0 /\ sorted[parent].type = "dir"
                  THEN BuildFrom(sorted, i + 1, tree,
                                 [children EXCEPT ![parent] = Append(@, i)])
                  ELSE BuildFrom(sorted, i + 1, tree, children)

buildFileTree(list) ==
    LET sorted == SortByPath(list)
    IN  BuildFrom(sorted, 1, <<>>, [i \in 1..Len(sorted) |-> <<>>])

RECURSIVE FlattenNodes(_, _)
\* Depth-first flattening of a node list: the node positions in visit order.
FlattenNodes(t, nodes) ==
    IF nodes = <<>> THEN <<>>
    ELSE <<nodes[1]>> \o FlattenNodes(t, t.children[nodes[1]])
                      \o FlattenNodes(t, Tail(nodes))

FlattenPaths(t) ==
    LET order == FlattenNodes(t, t.tree)
    IN  [k \in 1..Len(order) |-> t.nodes[order[k]].path]

(***************************************************************************)
(* Bounds and input pools                                                  *)
(***************************************************************************)
RepoIds == {"r1", "r2"}

Callers == {"c1", "c2"}

P_src == <<"s","r","c">>

P_a == P_src \o <<"/","a",".","t","s">>

P_utils == P_src \o <<"/","u","t","i","l","s">>

P_b == P_utils \o <<"/","b",".","t","s">>

P_readme == <<"R","E","A","D","M","E">>

P_lib_c == <<"l","i","b","/","c",".","t","s">>

TreeItem(path, type, sha) == [path |-> path, type |-> type, sha |-> sha]

\* Remote trees as the tree endpoint lists them (each path once).
TreeSmall == <<TreeItem(P_readme, "blob", "h0")>>

TreeNested ==
    <<TreeItem(P_src, "tree", "h1"), TreeItem(P_a, "blob", "h2"),
      TreeItem(P_utils, "tree", "h3"), TreeItem(P_b, "blob", "h4")>>

TreePool == {<<>>, TreeSmall, TreeNested}

\* Provider calls of one pagination that a run follows before it is cut off
MaxCalls == 3

\* Issues of one state on the remote
MaxRemote == 1

\* The maxIssues option
MaxIssuesOption == 2

\* Entries of a list handed to buildFileTree
MaxTreeLen == 4

(***************************************************************************)
(* Cache store: GitHubDatabase (Dexie tables)                              *)
(***************************************************************************)
NoRepo == [syncStatus |-> "absent", totalFiles |-> 0]

\* table.where('repoId').equals(repoId).toArray()
WhereRepo(table, repoId) == SelectSeq(table, LAMBDA x : x.repoId = repoId)

\* A delete that removes nothing (what a forgotten clear step would do).
DeleteWhereRepoOmitted(table, repoId) == table

\* A delete that empties the table.
DeleteEveryRepo(table, repoId) == <<>>

\* table.where('repoId').equals(repoId).delete()
DeleteWhereRepo(table, repoId) == SelectSeq(table, LAMBDA x : x.repoId # repoId)

\* table.bulkAdd(records): the records get fresh, increasing primary keys
BulkAdd(table, records) == table \o records

\* repos.put(repo)
saveRepo(rs, repoId, repo) == [rs EXCEPT ![repoId] = repo]

\* A status update that is skipped when no file count is given.
updateRepoSyncStatusNeedsTotal(rs, repoId, status, hasTotal, totalFiles) ==
    IF rs[repoId] = NoRepo \/ ~hasTotal THEN rs
    ELSE [rs EXCEPT ![repoId] =
            [syncStatus |-> status, totalFiles |-> totalFiles]]

\* A status update that counts one file too many.
updateRepoSyncStatusOffByOne(rs, repoId, status, hasTotal, totalFiles) ==
    IF rs[repoId] = NoRepo THEN rs
    ELSE [rs EXCEPT ![repoId] =
            [syncStatus |-> status,
             totalFiles |-> IF hasTotal THEN totalFiles + 1 ELSE @.totalFiles]]

\* A status update applied to every repository record.
updateRepoSyncStatusEvery(rs, repoId, status, hasTotal, totalFiles) ==
    [r \in DOMAIN rs |->
        IF rs[r] = NoRepo THEN rs[r]
        ELSE [syncStatus |-> status,
              totalFiles |-> IF hasTotal THEN totalFiles ELSE rs[r].totalFiles]]

\* repos.update(repoId, updates): changes nothing when the key is absent;
\* totalFiles is written only when the argument is given (hasTotal).
updateRepoSyncStatus(rs, repoId, status, hasTotal, totalFiles) ==
    IF rs[repoId] = NoRepo THEN rs
    ELSE [rs EXCEPT ![repoId] =
            [syncStatus |-> status,
             totalFiles |-> IF hasTotal THEN totalFiles ELSE @.totalFiles]]

\* A write back that stores nothing.
saveFileContentOmitted(table, repoId, filePath, content) == table

\* files.where('[repoId+path]').equals([repoId, filePath]).modify({content})
saveFileContent(table, repoId, filePath, content) ==
    [i \in 1..Len(table) |->
        IF table[i].repoId = repoId /\ table[i].path = filePath
        THEN [table[i] EXCEPT !.content = content]
        ELSE table[i]]

\* getFileTree(repoId): the stored files of the repository as a tree
getFileTree(table, repoId) == buildFileTree(WhereRepo(table, repoId))

\* The (path, type, sha, parentPath) tuples of a file list, in order.
FileTuples(list) ==
    [i \in 1..Len(list) |->
        <<list[i].path, list[i].type, list[i].sha, list[i].parentPath>>]

Range(seq) == {seq[i] : i \in 1..Len(seq)}

\* No two records of the list have the same (repoId, path).
UniquePaths(list) ==
    \A i, j \in 1..Len(list) :
        (list[i].repoId = list[j].repoId /\ list[i].path = list[j].path) => i = j

(***************************************************************************)
(* File sync: GitHubSyncService.syncRepository                             *)
(***************************************************************************)
Progress(status, completed, total, currentFile) ==
    [status |-> status, completed |-> completed, total |-> total,
     currentFile |-> currentFile]

IdleSync ==
    [pc |-> "idle", repoId |-> "", files |-> <<>>, events |-> <<>>,
     total |-> 0, before |-> <<>>, error |-> "none", thrown |-> "none"]

\* The GitHubFile built from one tree item (the body of the for loop).
ToGitHubFile(repoId, item) ==
    [repoId |-> repoId,
     path |-> item.path,
     name |-> getFileName(item.path),
     type |-> IF item.type = "tree" THEN "dir" ELSE "file",
     sha |-> item.sha,
     parentPath |-> getParentPath(item.path),
     content |-> ""]

\* files after the for loop over the tree
BuildFiles(repoId, tree) == [i \in 1..Len(tree) |-> ToGitHubFile(repoId, tree[i])]

\* Loop events that all carry the final count.
LoopEventsFinalCount(tree) ==
    <<Progress("syncing", 0, Len(tree), "Starting sync...")>> \o
    [i \in 1..Len(tree) |-> Progress("syncing", Len(tree), Len(tree), tree[i].path)]

\* The progress events of the loop: the starting event, then one per entry.
LoopEvents(tree) ==
    <<Progress("syncing", 0, Len(tree), "Starting sync...")>> \o
    [i \in 1..Len(tree) |-> Progress("syncing", i, Len(tree), tree[i].path)]

InFlight(c) == fsync[c].pc \notin {"idle", "returned", "threw"}

NoSyncInFlight == \A c \in Callers : ~InFlight(c)

\* saveRepo with status syncing, then the await of the tree fetch.
SyncStart(c, r) ==
    /\ c = "c1"
    /\ NoSyncInFlight
    /\ repos' = saveRepo(repos, r, [syncStatus |-> "syncing", totalFiles |-> 0])
    /\ fsync' = [fsync EXCEPT ![c] =
                    [IdleSync EXCEPT !.pc = "fetch", !.repoId = r,
                                     !.before = WhereRepo(files, r)]]
    /\ last' = [op |-> "SyncStart", repoId |-> r]
    /\ UNCHANGED <<files, issues, remoteTree, remoteIssues, isync, reader,
                   firstSync, treeVars, callVars>>

\* syncRepository called while another call may be in flight: nothing in
\* the service or the store keeps a second call, for the same repository or
\* another, from starting.
SyncStartOverlapping(c, r) ==
    /\ ~InFlight(c)
    /\ ~NoSyncInFlight
    /\ repos' = saveRepo(repos, r, [syncStatus |-> "syncing", totalFiles |-> 0])
    /\ fsync' = [fsync EXCEPT ![c] =
                    [IdleSync EXCEPT !.pc = "fetch", !.repoId = r,
                                     !.before = WhereRepo(files, r)]]
    /\ last' = [op |-> "SyncStartOverlapping", repoId |-> r]
    /\ UNCHANGED <<files, issues, remoteTree, remoteIssues, isync, reader,
                   firstSync, treeVars, callVars>>

\* getRepositoryTree returns; the loop builds the files; saveFiles is called.
SyncFetchOk(c) ==
    /\ fsync[c].pc = "fetch"
    /\ LET r == fsync[c].repoId
           tree == remoteTree[r]
       IN  fsync' = [fsync EXCEPT ![c].pc = "delete",
                                  ![c].files = BuildFiles(r, tree),
                                  ![c].total = Len(tree),
                                  ![c].events = LoopEvents(tree)]
    /\ last' = [op |-> "SyncFetchOk", repoId |-> fsync[c].repoId]
    /\ UNCHANGED <<storeVars, remoteTree, remoteIssues, isync, reader,
                   firstSync, treeVars, callVars>>

\* getRepositoryTree throws 'Failed to fetch repository tree'.
SyncFetchFail(c) ==
    /\ fsync[c].pc = "fetch"
    /\ fsync' = [fsync EXCEPT ![c].pc = "catch", ![c].error = "fetch"]
    /\ last' = [op |-> "SyncFetchFail", repoId |-> fsync[c].repoId]
    /\ UNCHANGED <<storeVars, remoteTree, remoteIssues, isync, reader,
                   firstSync, treeVars, callVars>>

\* saveFiles, first await: clear the existing files of the repository.
SaveFilesDelete(c) ==
    /\ fsync[c].pc = "delete"
    /\ files' = DeleteWhereRepo(files, fsync[c].repoId)
    /\ fsync' = [fsync EXCEPT ![c].pc = "bulkAdd"]
    /\ last' = [op |-> "SaveFilesDelete", repoId |-> fsync[c].repoId]
    /\ UNCHANGED <<repos, issues, remoteTree, remoteIssues, isync, reader,
                   firstSync, treeVars, callVars>>

\* saveFiles, second await: add the new files.
SaveFilesBulkAdd(c) ==
    /\ fsync[c].pc = "bulkAdd"
    /\ files' = BulkAdd(files, fsync[c].files)
    /\ fsync' = [fsync EXCEPT ![c].pc = "complete"]
    /\ last' = [op |-> "SaveFilesBulkAdd", repoId |-> fsync[c].repoId]
    /\ UNCHANGED <<repos, issues, remoteTree, remoteIssues, isync, reader,
                   firstSync, treeVars, callVars>>

\* updateRepoSyncStatus(completed, files.length), the completed event, return.
SyncComplete(c) ==
    /\ fsync[c].pc = "complete"
    /\ LET r == fsync[c].repoId
           total == fsync[c].total
       IN  /\ repos' = updateRepoSyncStatus(repos, r, "completed", TRUE,
                                            Len(fsync[c].files))
           /\ fsync' = [fsync EXCEPT
                  ![c].pc = "returned",
                  ![c].events = Append(@, Progress("completed", total, total,
                                                   "Sync completed!"))]
           /\ firstSync' = IF firstSync[r].runs = 0
                           THEN [firstSync EXCEPT ![r] =
                                   [runs |-> 1, stored |-> WhereRepo(files, r)]]
                           ELSE [firstSync EXCEPT ![r].runs = 2]
    /\ last' = [op |-> "SyncComplete", repoId |-> fsync[c].repoId]
    /\ UNCHANGED <<files, issues, remoteTree, remoteIssues, isync, reader, treeVars, callVars>>

\* The catch block: updateRepoSyncStatus(error), the error event, rethrow.
SyncCatch(c) ==
    /\ fsync[c].pc = "catch"
    /\ repos' = updateRepoSyncStatus(repos, fsync[c].repoId, "error", FALSE, 0)
    /\ fsync' = [fsync EXCEPT
           ![c].pc = "threw",
           ![c].thrown = fsync[c].error,
           ![c].events = Append(@, Progress("error", 0, 0, ""))]
    /\ last' = [op |-> "SyncCatch", repoId |-> fsync[c].repoId]
    /\ UNCHANGED <<files, issues, remoteTree, remoteIssues, isync, reader,
                   firstSync, treeVars, callVars>>

(***************************************************************************)
(* Storage failures inside syncRepository (a Dexie operation rejects)      *)
(***************************************************************************)
\* saveFiles: the delete rejects; nothing is deleted and the error is caught.
SaveFilesDeleteFails(c) ==
    /\ fsync[c].pc = "delete"
    /\ fsync' = [fsync EXCEPT ![c].pc = "catch", ![c].error = "storage"]
    /\ last' = [op |-> "SaveFilesDeleteFails", repoId |-> fsync[c].repoId]
    /\ UNCHANGED <<storeVars, remoteTree, remoteIssues, isync, reader,
                   firstSync, treeVars, callVars>>

\* saveFiles: bulkAdd rejects after the delete went through. bulkAdd runs in
\* its own implicit transaction: the first k records (k < n) may be kept.
SaveFilesBulkAddFails(c, k) ==
    /\ fsync[c].pc = "bulkAdd"
    /\ k \in 0..(Len(fsync[c].files) - 1)
    /\ files' = BulkAdd(files, SubSeq(fsync[c].files, 1, k))
    /\ fsync' = [fsync EXCEPT ![c].pc = "catch", ![c].error = "storage"]
    /\ last' = [op |-> "SaveFilesBulkAddFails", repoId |-> fsync[c].repoId]
    /\ UNCHANGED <<repos, issues, remoteTree, remoteIssues, isync, reader,
                   firstSync, treeVars, callVars>>

\* updateRepoSyncStatus(completed) rejects: the error is caught.
SyncCompleteFails(c) ==
    /\ fsync[c].pc = "complete"
    /\ fsync' = [fsync EXCEPT ![c].pc = "catch", ![c].error = "storage"]
    /\ last' = [op |-> "SyncCompleteFails", repoId |-> fsync[c].repoId]
    /\ UNCHANGED <<storeVars, remoteTree, remoteIssues, isync, reader,
                   firstSync, treeVars, callVars>>

\* The catch block's updateRepoSyncStatus(error) rejects: that error leaves
\* the call, no error event is emitted.
SyncCatchFails(c) ==
    /\ fsync[c].pc = "catch"
    /\ fsync' = [fsync EXCEPT ![c].pc = "threw", ![c].thrown = "storage"]
    /\ last' = [op |-> "SyncCatchFails", repoId |-> fsync[c].repoId]
    /\ UNCHANGED <<storeVars, remoteTree, remoteIssues, isync, reader,
                   firstSync, treeVars, callVars>>

(***************************************************************************)
(* Other callers of the store                                              *)
(***************************************************************************)
ContentPaths == {P_a, P_readme, P_lib_c}

\* cacheFileContent / githubDB.saveFileContent, between syncs
SaveFileContent(r, path) ==
    /\ NoSyncInFlight
    /\ files' = saveFileContent(files, r, path, "text")
    /\ last' = [op |-> "SaveFileContent", repoId |-> r]
    /\ UNCHANGED <<repos, issues, remoteTree, remoteIssues, fsync, isync,
                   reader, firstSync, treeVars, callVars>>

\* clearRepositoryCache / githubDB.clearRepo, between syncs
ClearRepo(r) ==
    /\ NoSyncInFlight
    /\ isync.pc \in {"idle", "returned", "threw"}
    /\ files' = DeleteWhereRepo(files, r)
    /\ issues' = DeleteWhereRepo(issues, r)
    /\ repos' = [repos EXCEPT ![r] = NoRepo]
    /\ last' = [op |-> "ClearRepo", repoId |-> r]
    /\ UNCHANGED <<remoteTree, remoteIssues, fsync, isync, reader, firstSync,
                   treeVars, callVars>>

\* clearRepo called while a sync is in flight: nothing in the store or the
\* services keeps it from running then.
ClearRepoDuringSync(r) ==
    /\ ~NoSyncInFlight \/ isync.pc \notin {"idle", "returned", "threw"}
    /\ files' = DeleteWhereRepo(files, r)
    /\ issues' = DeleteWhereRepo(issues, r)
    /\ repos' = [repos EXCEPT ![r] = NoRepo]
    /\ last' = [op |-> "ClearRepo", repoId |-> r]
    /\ UNCHANGED <<remoteTree, remoteIssues, fsync, isync, reader, firstSync,
                   treeVars, callVars>>

\* A reader calls getFileTree(repoId) at any moment, also between the awaits
\* of a running sync. replacing: a saveFiles of that repository is between
\* its delete and its bulkAdd, had files before and has files to add.
GetFileTree(r) ==
    /\ reader' =
         [repoId |-> r,
          count |-> Len(WhereRepo(files, r)),
          roots |-> Len(getFileTree(files, r).tree),
          replacing |-> \E c \in Callers :
                           /\ fsync[c].pc = "bulkAdd"
                           /\ fsync[c].repoId = r
                           /\ fsync[c].before # <<>>
                           /\ fsync[c].files # <<>>]
    /\ last' = [op |-> "GetFileTree", repoId |-> r]
    /\ UNCHANGED <<storeVars, remoteTree, remoteIssues, fsync, isync,
                   firstSync, treeVars, callVars>>

(***************************************************************************)
(* Provider client: GitHubService.getIssues                                *)
(***************************************************************************)
IssueStates == {"open", "closed"}

\* per_page of the listForRepo request
ProviderPerPage == 50

Min(a, b) == IF a < b THEN a ELSE b

\* ceil(a / b) for positive b
CeilDiv(a, b) == (a + b - 1) \div b

\* The k-th issue of a state on the remote; ids are distinct.
RemoteIssue(state, k) == [id |-> <<state, k>>, number |-> k, state |-> state]

\* The listForRepo request of the k-th getIssues call of a pagination:
\* {owner, repo, state, per_page: 50} whatever k is. getIssues takes no
\* page argument and passes none, and a request without one is for the
\* first page.
listForRepoRequest(state, k) ==
    [state |-> state, per_page |-> ProviderPerPage, page |-> 1]

\* A provider client that asks for pages of the API maximum (100) instead.
getIssuesFullPages(remote, state) ==
    [k \in 1..Min(2 * ProviderPerPage, remote[state]) |-> RemoteIssue(state, k)]

\* listForRepo({owner, repo, state, per_page: 50}): no page parameter is
\* passed, so every call returns the first page of that state.
getIssues(remote, state) ==
    [k \in 1..Min(ProviderPerPage, remote[state]) |-> RemoteIssue(state, k)]

(***************************************************************************)
(* Issue sync: GitHubIssuesSyncService.syncRepositoryIssues                *)
(* maxIssues / 2 is a fraction for odd maxIssues: budgets and page sizes   *)
(* are kept doubled (share2 = 2 * share) so that they stay integers.       *)
(***************************************************************************)
\* GitHub API max per page in fetchIssuesWithPagination
ApiMaxPerPage == 100

\* A budget that hands the whole of maxIssues to the open pagination.
Share2OpenUnsplit(state, syncClosed, maxIssues) ==
    IF state = "open" THEN 2 * maxIssues ELSE maxIssues

\* Twice the budget handed to fetchIssuesWithPagination for a state:
\* maxIssues / (syncClosed ? 2 : 1) for open, maxIssues / 2 for closed.
Share2(state, syncClosed, maxIssues) ==
    IF state = "open"
    THEN (IF syncClosed THEN maxIssues ELSE 2 * maxIssues)
    ELSE maxIssues

\* Twice perPage = Math.min(100, maxIssues)
PerPage2(share2) == Min(2 * ApiMaxPerPage, share2)

\* A slice that keeps the whole page.
SlicePageWhole(page, share2, len) == page

\* pageIssues.slice(0, maxIssues - issues.length): the end index is
\* truncated to an integer
SlicePage(page, share2, len) ==
    SubSeq(page, 1, Min(Len(page), (share2 - 2 * len) \div 2))

convertToDBIssue(issue, repoId) ==
    [issueId |-> issue.id, repoId |-> repoId, number |-> issue.number,
     state |-> issue.state]

ConvertAll(list, repoId) ==
    [i \in 1..Len(list) |-> convertToDBIssue(list[i], repoId)]

\* The IssuesSyncProgress object of a call as constructed
NewProgress ==
    [currentPage |-> 1, issuesProcessed |-> 0, totalIssues |-> 0,
     currentState |-> "open", status |-> "starting"]

IdleIssuesSync ==
    [pc |-> "idle", repoId |-> "", syncOpen |-> FALSE, syncClosed |-> FALSE,
     maxIssues |-> 0, state |-> "open", issues |-> <<>>, page |-> 1,
     calls |-> [s \in IssueStates |-> 0], allIssues |-> <<>>,
     progress |-> NewProgress, events |-> <<>>, thrown |-> "none",
     failures |-> <<>>, before |-> <<>>, requests |-> <<>>]

IssuesSettled == isync.pc \in {"idle", "returned", "threw"}

\* The call's record once the pagination of state st has begun: progress is
\* set to that state and reported (rec: the record before).
BeginPhase(rec, st) ==
    LET prog == [rec.progress EXCEPT !.currentState = st, !.status = "syncing"]
    IN  [rec EXCEPT !.pc = "fetch", !.state = st, !.issues = <<>>, !.page = 1,
                    !.progress = prog, !.events = Append(@, prog)]

\* The call's record after the pagination of rec.state returned the issues
\* of rec: they are converted and pushed, then the closed pagination or
\* saveIssues begins.
EndPhase(rec) ==
    LET pushed == [rec EXCEPT
                     !.allIssues = @ \o ConvertAll(rec.issues, rec.repoId)]
    IN  IF rec.state = "open" /\ rec.syncClosed
        THEN BeginPhase(pushed, "closed")
        ELSE [pushed EXCEPT !.pc = "delete"]

\* The record of a syncRepositoryIssues call at its first await: the
\* starting event, then the first requested pagination, or saveIssues when
\* no state is requested.
StartedSync(r, syncOpen, syncClosed, maxIssues) ==
    LET rec == [IdleIssuesSync EXCEPT
                   !.repoId = r, !.syncOpen = syncOpen,
                   !.syncClosed = syncClosed, !.maxIssues = maxIssues,
                   !.events = <<NewProgress>>,
                   !.before = WhereRepo(issues, r)]
    IN  IF syncOpen THEN BeginPhase(rec, "open")
        ELSE IF syncClosed THEN BeginPhase(rec, "closed")
        ELSE [rec EXCEPT !.pc = "delete"]

\* syncRepositoryIssues is called and runs up to its first await.
IssuesSyncStart(r, syncOpen, syncClosed, maxIssues) ==
    /\ IssuesSettled
    /\ isync' = StartedSync(r, syncOpen, syncClosed, maxIssues)
    /\ last' = [op |-> "IssuesSyncStart", repoId |-> r]
    /\ UNCHANGED <<storeVars, remoteTree, remoteIssues, fsync, reader,
                   firstSync, treeVars, callVars>>

\* One iteration of the while loop of fetchIssuesWithPagination whose
\* provider call returns: the loop condition held, the page is sliced and
\* appended, progress is reported, and the loop ends on an empty page, on a
\* page shorter than perPage, or when the condition fails at the next test.
IssuesFetchPage ==
    /\ isync.pc = "fetch"
    /\ isync.calls[isync.state] < MaxCalls
    /\ LET st == isync.state
           share2 == Share2(st, isync.syncClosed, isync.maxIssues)
           pageIssues == getIssues(remoteIssues, st)
           acc == isync.issues \o SlicePage(pageIssues, share2, Len(isync.issues))
           prog == [isync.progress EXCEPT !.currentPage = isync.page,
                                          !.issuesProcessed = Len(acc)]
           called == [isync EXCEPT
                        !.calls[st] = @ + 1,
                        !.requests = Append(@,
                            listForRepoRequest(st, isync.calls[st] + 1))]
           added == [called EXCEPT !.issues = acc, !.progress = prog,
                                   !.events = Append(@, prog)]
       IN  /\ 2 * Len(isync.issues) < share2
           /\ isync' =
                IF Len(pageIssues) = 0 THEN EndPhase(called)
                ELSE IF 2 * Len(pageIssues) < PerPage2(share2) THEN EndPhase(added)
                ELSE IF 2 * Len(acc) < share2
                     THEN [added EXCEPT !.page = @ + 1]
                     ELSE EndPhase([added EXCEPT !.page = @ + 1])
    /\ last' = [op |-> "IssuesFetchPage", repoId |-> isync.repoId]
    /\ UNCHANGED <<storeVars, remoteTree, remoteIssues, fsync, reader,
                   firstSync, treeVars, callVars>>

\* What a failing provider call leaves in the record of the sync: the call
\* is counted, and failures keeps the state, the number of calls and what
\* the sync had accumulated when it failed.
FailedCall(rec) ==
    [rec EXCEPT
        !.calls[rec.state] = @ + 1,
        !.requests = Append(@,
            listForRepoRequest(rec.state, rec.calls[rec.state] + 1)),
        !.failures = Append(@,
            [state |-> rec.state, calls |-> rec.calls[rec.state] + 1,
             accumulated |-> rec.allIssues \o ConvertAll(rec.issues, rec.repoId)])]

\* A page fetch whose error is not caught in the loop: it reaches the catch
\* block of syncRepositoryIssues, which reports it and rethrows.
IssuesFetchPageRethrows ==
    /\ isync.pc = "fetch"
    /\ isync.calls[isync.state] < MaxCalls
    /\ LET prog == [isync.progress EXCEPT !.status = "error"]
       IN  isync' = [FailedCall(isync) EXCEPT
                        !.pc = "threw", !.thrown = "fetch",
                        !.progress = prog, !.events = Append(@, prog)]
    /\ last' = [op |-> "IssuesFetchPageThrows", repoId |-> isync.repoId]
    /\ UNCHANGED <<storeVars, remoteTree, remoteIssues, fsync, reader,
                   firstSync, treeVars, callVars>>

\* One iteration whose provider call throws: the error is logged and the
\* loop breaks with the issues accumulated so far.
IssuesFetchPageThrows ==
    /\ isync.pc = "fetch"
    /\ isync.calls[isync.state] < MaxCalls
    /\ isync' = EndPhase(FailedCall(isync))
    /\ last' = [op |-> "IssuesFetchPageThrows", repoId |-> isync.repoId]
    /\ UNCHANGED <<storeVars, remoteTree, remoteIssues, fsync, reader,
                   firstSync, treeVars, callVars>>

\* saveIssues, first await: clear the existing issues of the repository.
SaveIssuesDelete ==
    /\ isync.pc = "delete"
    /\ issues' = DeleteWhereRepo(issues, isync.repoId)
    /\ isync' = [isync EXCEPT !.pc = "bulkAdd"]
    /\ last' = [op |-> "SaveIssuesDelete", repoId |-> isync.repoId]
    /\ UNCHANGED <<repos, files, remoteTree, remoteIssues, fsync, reader,
                   firstSync, treeVars, callVars>>

\* saveIssues, second await: add the issues; the completed event; return.
SaveIssuesBulkAdd ==
    /\ isync.pc = "bulkAdd"
    /\ issues' = BulkAdd(issues, isync.allIssues)
    /\ LET prog == [isync.progress EXCEPT
                       !.status = "completed",
                       !.totalIssues = Len(isync.allIssues),
                       !.issuesProcessed = Len(isync.allIssues)]
       IN  isync' = [isync EXCEPT !.pc = "returned", !.progress = prog,
                                  !.events = Append(@, prog)]
    /\ last' = [op |-> "SaveIssuesBulkAdd", repoId |-> isync.repoId]
    /\ UNCHANGED <<repos, files, remoteTree, remoteIssues, fsync, reader,
                   firstSync, treeVars, callVars>>

\* The catch block of syncRepositoryIssues: the error event, then rethrow.
IssuesCaught(rec, error) ==
    LET prog == [rec.progress EXCEPT !.status = "error"]
    IN  [rec EXCEPT !.pc = "threw", !.thrown = error,
                    !.progress = prog, !.events = Append(@, prog)]

\* saveIssues: the delete rejects; nothing is deleted, the call throws.
SaveIssuesDeleteFails ==
    /\ isync.pc = "delete"
    /\ isync' = IssuesCaught(isync, "storage")
    /\ last' = [op |-> "SaveIssuesDeleteFails", repoId |-> isync.repoId]
    /\ UNCHANGED <<storeVars, remoteTree, remoteIssues, fsync, reader,
                   firstSync, treeVars, callVars>>

\* saveIssues: bulkAdd rejects after the delete went through, the first k
\* records (k < n) may be kept; the call throws.
SaveIssuesBulkAddFails(k) ==
    /\ isync.pc = "bulkAdd"
    /\ k \in 0..(Len(isync.allIssues) - 1)
    /\ issues' = BulkAdd(issues, SubSeq(isync.allIssues, 1, k))
    /\ isync' = IssuesCaught(isync, "storage")
    /\ last' = [op |-> "SaveIssuesBulkAddFails", repoId |-> isync.repoId]
    /\ UNCHANGED <<repos, files, remoteTree, remoteIssues, fsync, reader,
                   firstSync, treeVars, callVars>>

(***************************************************************************)
(* GitHubIssuesSyncService.syncMultipleRepositories                        *)
(***************************************************************************)
\* maxIssues of syncRepositoryIssues when the options carry none: the
\* options of syncMultipleRepositories name it maxIssuesPerRepo.
DefaultMaxIssues == 100

\* Repositories in the list handed to syncMultipleRepositories
MaxRepos == 2

IdleMulti ==
    [pc |-> "idle", repositories |-> <<>>, syncOpen |-> FALSE,
     syncClosed |-> FALSE, started |-> <<>>, outcomes |-> <<>>]

\* A loop without the try/catch around the call: the first failure ends it.
LoopOnRethrows(m, outcomes) ==
    IF outcomes # <<>> /\ outcomes[Len(outcomes)] = "threw"
    THEN [m EXCEPT !.pc = "threw", !.outcomes = outcomes]
    ELSE IF Len(outcomes) < Len(m.repositories)
    THEN [m EXCEPT !.pc = "awaiting", !.outcomes = outcomes,
                   !.started = Append(@, m.repositories[Len(outcomes) + 1])]
    ELSE [m EXCEPT !.pc = "returned", !.outcomes = outcomes]

\* The loop reaches its next iteration (or its end) with the outcomes so
\* far: it calls syncRepositoryIssues for the next repository and awaits
\* it, or returns after the last one.
LoopOn(m, outcomes) ==
    IF Len(outcomes) < Len(m.repositories)
    THEN [m EXCEPT !.pc = "awaiting", !.outcomes = outcomes,
                   !.started = Append(@, m.repositories[Len(outcomes) + 1])]
    ELSE [m EXCEPT !.pc = "returned", !.outcomes = outcomes]

\* The syncRepositoryIssues call the loop has just made, if it made one.
CalledSync(m, rec) ==
    IF m.pc = "awaiting"
    THEN StartedSync(m.started[Len(m.started)], m.syncOpen, m.syncClosed,
                     DefaultMaxIssues)
    ELSE rec

\* syncMultipleRepositories is called: the loop runs to its first await.
MultiStart(list, syncOpen, syncClosed) ==
    /\ multi.pc \in {"idle", "returned"}
    /\ IssuesSettled
    /\ multi' = LoopOn([IdleMulti EXCEPT !.repositories = list,
                                         !.syncOpen = syncOpen,
                                         !.syncClosed = syncClosed], <<>>)
    /\ isync' = CalledSync(multi', isync)
    /\ last' = [op |-> "MultiStart", repoId |-> ""]
    /\ UNCHANGED <<storeVars, remoteTree, remoteIssues, fsync, reader,
                   firstSync, treeVars, query, search, analysis, viewVars>>

\* The awaited call has settled: a rejection is caught and logged, and the
\* loop goes on.
MultiNext ==
    /\ multi.pc = "awaiting"
    /\ isync.pc \in {"returned", "threw"}
    /\ multi' = LoopOn(multi, Append(multi.outcomes, isync.pc))
    /\ isync' = CalledSync(multi', isync)
    /\ last' = [op |-> "MultiNext", repoId |-> isync.repoId]
    /\ UNCHANGED <<storeVars, remoteTree, remoteIssues, fsync, reader,
                   firstSync, treeVars, query, search, analysis, viewVars>>

\* issues.where('[repoId+issueId]').equals([repoId, issueId]).modify(updates)
\* with updates = {state}
updateIssue(table, repoId, issueId, state) ==
    [i \in 1..Len(table) |->
        IF table[i].repoId = repoId /\ table[i].issueId = issueId
        THEN [table[i] EXCEPT !.state = state]
        ELSE table[i]]

\* A count that takes the open issues for the closed ones.
getIssuesCountOpenTwice(table, repoId) ==
    LET allIssues == WhereRepo(table, repoId)
        open == Len(SelectSeq(allIssues, LAMBDA x : x.state = "open"))
    IN  [open |-> open, closed |-> open, total |-> Len(allIssues)]

getIssuesCount(table, repoId) ==
    LET allIssues == WhereRepo(table, repoId)
    IN  [open |-> Len(SelectSeq(allIssues, LAMBDA x : x.state = "open")),
         closed |-> Len(SelectSeq(allIssues, LAMBDA x : x.state = "closed")),
         total |-> Len(allIssues)]

\* githubDB.updateIssue, between syncs
UpdateIssue(r, issueId, state) ==
    /\ IssuesSettled
    /\ issues' = updateIssue(issues, r, issueId, state)
    /\ last' = [op |-> "UpdateIssue", repoId |-> r]
    /\ UNCHANGED <<repos, files, remoteTree, remoteIssues, fsync, isync,
                   reader, firstSync, treeVars, callVars>>

(***************************************************************************)
(* Issue queries: GitHubDatabase.getIssues                                 *)
(***************************************************************************)
\* An optional argument: absent (undefined) or given with a value.
Absent == [given |-> FALSE, value |-> 0]

Given(v) == [given |-> TRUE, value |-> v]

\* if (filters?.x) for a number: undefined and 0 are both falsy.
TruthyNumber(opt) == opt.given /\ opt.value # 0

NoFilters ==
    [state |-> "", assignee |-> "", label |-> "", limit |-> Absent,
     offset |-> Absent]

\* The three filter steps: a filter that is not given ('' or undefined is
\* falsy) keeps every issue.
PassesFilters(issue, filters) ==
    /\ filters.state # "" => issue.state = filters.state
    /\ filters.assignee # "" => filters.assignee \in issue.assignees
    /\ filters.label # "" => filters.label \in issue.labels

\* Array.prototype.sort is stable: x goes behind the elements that are at
\* least as new.
InsertByUpdated(sorted, x) ==
    LET before == {k \in 1..Len(sorted) : sorted[k].updatedAt >= x.updatedAt}
        n == Cardinality(before)
    IN  SubSeq(sorted, 1, n) \o <<x>> \o SubSeq(sorted, n + 1, Len(sorted))

RECURSIVE SortByUpdatedFrom(_, _, _)
SortByUpdatedFrom(list, i, sorted) ==
    IF i > Len(list) THEN sorted
    ELSE SortByUpdatedFrom(list, i + 1, InsertByUpdated(sorted, list[i]))

\* issues.sort((a, b) => b.updatedAt.getTime() - a.updatedAt.getTime())
SortByUpdated(list) == SortByUpdatedFrom(list, 1, <<>>)

\* list.slice(start): the elements from index start (0-based) on
SliceFrom(list, start) == SubSeq(list, start + 1, Len(list))

\* list.slice(0, end) for end >= 0
SliceTo(list, end) == SubSeq(list, 1, Min(end, Len(list)))

\* githubDB.getIssues(repoId, filters)
dbGetIssues(table, repoId, filters) ==
    LET filtered == SelectSeq(WhereRepo(table, repoId),
                              LAMBDA x : PassesFilters(x, filters))
        sorted == SortByUpdated(filtered)
        dropped == IF TruthyNumber(filters.offset)
                   THEN SliceFrom(sorted, filters.offset.value) ELSE sorted
    IN  IF TruthyNumber(filters.limit)
        THEN SliceTo(dropped, filters.limit.value) ELSE dropped

IdleQuery == [pc |-> "idle", repoId |-> "", filters |-> NoFilters, result |-> <<>>]

\* A caller reads issues with githubDB.getIssues.
GetIssues(r, filters) ==
    /\ query' = [pc |-> "done", repoId |-> r, filters |-> filters,
                 result |-> dbGetIssues(issues, r, filters)]
    /\ last' = [op |-> "GetIssues", repoId |-> r]
    /\ UNCHANGED <<storeVars, remoteTree, remoteIssues, fsync, isync, reader,
                   firstSync, treeVars, multi, search, analysis, viewVars>>

(***************************************************************************)
(* Code context search: ServerCodeContextService.searchCodeContext         *)
(* Scores are kept in units of 0.05 (a score of 1.0 is 20 units).          *)
(***************************************************************************)
\* The words a query and a file are compared on
Terms == {"test", "config", "sync"}

\* The words whose presence in the query boosts files of that kind
BoostWords == {"test", "config"}

\* A project file as the search sees it: the terms its lower-cased name
\* and path include, the number of whole-word matches of each term in its
\* content, and whether readFile succeeds.
CodeFile(name, nameHas, pathHas, matches, readable) ==
    [name |-> name, nameHas |-> nameHas, pathHas |-> pathHas,
     matches |-> matches, readable |-> readable]

\* calculateFileRelevance, in units of 0.05: 0.3 per term in the name, 0.2
\* per term in the path, 0.05 per match in the content capped at 0.2 per
\* term, 0.2 per boost, the sum capped at 1.0.
RECURSIVE SumOver(_, _)
SumOver(set, f) ==
    IF set = {} THEN 0
    ELSE LET t == CHOOSE x \in set : TRUE
         IN  f[t] + SumOver(set \ {t}, f)

\* A score without the final cap at 1.0.
calculateFileRelevanceUncapped(file, terms, mentions) ==
    LET nameAndPath == [t \in terms |->
                          (IF t \in file.nameHas THEN 6 ELSE 0)
                          + (IF t \in file.pathHas THEN 4 ELSE 0)]
        content == [t \in terms |-> Min(file.matches[t], 4)]
        boosts == [w \in mentions |-> IF w \in file.nameHas THEN 4 ELSE 0]
    IN  SumOver(terms, nameAndPath) + SumOver(terms, content)
          + SumOver(mentions, boosts)

calculateFileRelevance(file, terms, mentions) ==
    LET nameAndPath == [t \in terms |->
                          (IF t \in file.nameHas THEN 6 ELSE 0)
                          + (IF t \in file.pathHas THEN 4 ELSE 0)]
        content == [t \in terms |-> Min(file.matches[t], 4)]
        boosts == [w \in mentions |-> IF w \in file.nameHas THEN 4 ELSE 0]
    IN  Min(SumOver(terms, nameAndPath) + SumOver(terms, content)
              + SumOver(mentions, boosts), 20)

\* The contexts pushed by the loop over the files: a file that cannot be
\* read is skipped, a file scoring 0.1 or less is left out.
RECURSIVE CollectContexts(_, _, _, _)
CollectContexts(corpus, i, terms, mentions) ==
    IF i > Len(corpus) THEN <<>>
    ELSE LET file == corpus[i]
             score == calculateFileRelevance(file, terms, mentions)
             rest == CollectContexts(corpus, i + 1, terms, mentions)
         IN  IF file.readable /\ score > 2
             THEN <<[fileName |-> file.name, relevanceScore |-> score]>> \o rest
             ELSE rest

\* x goes behind the contexts that score at least as much (stable sort).
InsertByRelevance(sorted, x) ==
    LET before == {k \in 1..Len(sorted) :
                      sorted[k].relevanceScore >= x.relevanceScore}
        n == Cardinality(before)
    IN  SubSeq(sorted, 1, n) \o <<x>> \o SubSeq(sorted, n + 1, Len(sorted))

RECURSIVE SortByRelevanceFrom(_, _, _)
SortByRelevanceFrom(list, i, sorted) ==
    IF i > Len(list) THEN sorted
    ELSE SortByRelevanceFrom(list, i + 1, InsertByRelevance(sorted, list[i]))

\* A search that leaves the contexts in the order of the files.
SortByRelevanceOmitted(list) == list

\* contexts.sort((a, b) => b.relevanceScore - a.relevanceScore)
SortByRelevance(list) == SortByRelevanceFrom(list, 1, <<>>)

\* The sum of the relevanceScore of the contexts from index i on
RECURSIVE SumScores(_, _)
SumScores(contexts, i) ==
    IF i > Len(contexts) THEN 0
    ELSE contexts[i].relevanceScore + SumScores(contexts, i + 1)

\* A confidence is kept as a fraction num / den, den > 0.
Fraction(num, den) == [num |-> num, den |-> den]

\* calculateSearchConfidence: 0 without contexts; else min(n * 0.1, 0.3)
\* plus 0.4 times the average relevance plus 0.3 when there are search
\* terms, capped at 1.0. With scores in units of 0.05 the sum is a
\* multiple of 1 / (50 n).
calculateSearchConfidence(contexts, terms) ==
    IF Len(contexts) = 0 THEN Fraction(0, 1)
    ELSE LET n == Len(contexts)
             sum == 5 * n * Min(n, 3) + SumScores(contexts, 1)
                      + (IF terms # {} THEN 15 * n ELSE 0)
         IN  Fraction(Min(sum, 50 * n), 50 * n)

\* The CodeSearchResult of searchCodeContext (contexts, totalMatches,
\* confidence)
searchCodeContext(corpus, terms, mentions, maxResults) ==
    IF Len(corpus) = 0
    THEN [contexts |-> <<>>, totalMatches |-> 0, confidence |-> Fraction(0, 1)]
    ELSE LET contexts == SortByRelevance(CollectContexts(corpus, 1, terms, mentions))
             limitedContexts == SliceTo(contexts, maxResults)
         IN  [contexts |-> limitedContexts,
              totalMatches |-> Len(contexts),
              confidence |-> calculateSearchConfidence(limitedContexts, terms)]

NoResult == [contexts |-> <<>>, totalMatches |-> 0, confidence |-> Fraction(0, 1)]

IdleSearch ==
    [pc |-> "idle", corpus |-> <<>>, terms |-> {}, mentions |-> {},
     maxResults |-> 0, result |-> NoResult]

\* searchCodeContext(query, maxResults) over the files of the project
SearchCodeContext(terms, mentions, maxResults) ==
    /\ search' = [search EXCEPT
                     !.pc = "done", !.terms = terms, !.mentions = mentions,
                     !.maxResults = maxResults,
                     !.result = searchCodeContext(search.corpus, terms,
                                                  mentions, maxResults)]
    /\ last' = [op |-> "SearchCodeContext", repoId |-> ""]
    /\ UNCHANGED <<storeVars, remoteTree, remoteIssues, fsync, isync, reader,
                   firstSync, treeVars, multi, query, analysis, viewVars>>

(***************************************************************************)
(* Statement analysis: IssueAnalysisService.analyzeUserStatement           *)
(* The confidence is kept in units of 0.05.                                *)
(***************************************************************************)
\* maxResults of the code search made by analyzeUserStatement
AnalysisMaxResults == 5

\* The number of contexts of the list that score above limit
HighRelevance(contexts, limit) ==
    Cardinality({k \in 1..Len(contexts) : contexts[k].relevanceScore > limit})

\* A confidence without the final cap at 1.0.
calculateConfidenceUncapped(nIssues, highIssues, suggestions, keywords, codeContexts) ==
    Min(2 * keywords, 6) + Min(3 * nIssues, 8) + Min(2 * suggestions, 6)
      + highIssues
      + (IF Len(codeContexts) > 0
         THEN Min(2 * Len(codeContexts), 4) + HighRelevance(codeContexts, 10)
         ELSE 0)

\* calculateConfidence: min(keywords * 0.1, 0.3) + min(issues * 0.15, 0.4)
\* + min(suggestions * 0.1, 0.3) + 0.05 per issue scoring above 0.8, and
\* with code contexts min(contexts * 0.1, 0.2) + 0.05 per context scoring
\* above 0.5; capped at 1.0. (highIssues: the issues scoring above 0.8.)
calculateConfidence(nIssues, highIssues, suggestions, keywords, codeContexts) ==
    Min(Min(2 * keywords, 6) + Min(3 * nIssues, 8) + Min(2 * suggestions, 6)
          + highIssues
          + (IF Len(codeContexts) > 0
             THEN Min(2 * Len(codeContexts), 4) + HighRelevance(codeContexts, 10)
             ELSE 0),
        20)

IdleAnalysis ==
    [pc |-> "idle", keywords |-> 0, issues |-> 0, highIssues |-> 0,
     suggestions |-> 0, codeContexts |-> <<>>, confidence |-> 0]

\* analyzeUserStatement(statement): the keywords, the relevant issues (some
\* of them scoring above 0.8) and the suggestions are found, the code
\* search is made with maxResults 5, and the confidence is computed.
AnalyzeUserStatement(terms, mentions, keywords, nIssues, highIssues, suggestions) ==
    /\ analysis.pc = "idle"
    /\ highIssues <= nIssues
    /\ LET result == searchCodeContext(search.corpus, terms, mentions,
                                       AnalysisMaxResults)
       IN  /\ search' = [search EXCEPT
                            !.pc = "done", !.terms = terms,
                            !.mentions = mentions,
                            !.maxResults = AnalysisMaxResults,
                            !.result = result]
           /\ analysis' =
                 [pc |-> "done", keywords |-> keywords, issues |-> nIssues,
                  highIssues |-> highIssues, suggestions |-> suggestions,
                  codeContexts |-> result.contexts,
                  confidence |-> calculateConfidence(nIssues, highIssues,
                                     suggestions, keywords, result.contexts)]
    /\ last' = [op |-> "AnalyzeUserStatement", repoId |-> ""]
    /\ UNCHANGED <<storeVars, remoteTree, remoteIssues, fsync, isync, reader,
                   firstSync, treeVars, multi, query, viewVars>>

(***************************************************************************)
(* Provider client: GitHubService.getFileContent and getRepositoryTree     *)
(***************************************************************************)
\* A destructured array element that is not there (undefined)
Missing == [given |-> FALSE, value |-> <<>>]

RECURSIVE SplitFrom(_, _, _)
SplitFrom(str, i, part) ==
    IF i > Len(str) THEN <<part>>
    ELSE IF str[i] = "/" THEN <<part>> \o SplitFrom(str, i + 1, <<>>)
    ELSE SplitFrom(str, i + 1, Append(part, str[i]))

\* str.split('/'): the parts between the slashes, at least one
Split(str) == SplitFrom(str, 1, <<>>)

\* const [owner, repo] = repoFullName.split('/')
OwnerOf(fullName) == Given(Split(fullName)[1])

RepoOf(fullName) ==
    IF Len(Split(fullName)) >= 2 THEN Given(Split(fullName)[2]) ELSE Missing

\* repoData.default_branch of the repos.get response
DefaultBranch == "main"

\* A request handed to octokit and, once it is there, its answer
Request(api, fullName, ref) ==
    [api |-> api, owner |-> OwnerOf(fullName), repo |-> RepoOf(fullName),
     ref |-> ref, answer |-> "pending"]

Answered(sent, answer) == [sent EXCEPT ![Len(sent)].answer = answer]

Error(status, message) == [kind |-> "throw", status |-> status, message |-> message]

\* A fetchContent that gives up on every failure instead of rethrowing.
fetchContentSwallows(answer, ref, content) ==
    IF answer = "content" THEN [kind |-> "value", content |-> content]
    ELSE [kind |-> "null"]

\* fetchContent(ref), once getContent has answered: the decoded content,
\* null for a 404 at a truthy ref, else the error rethrown. A response
\* without content (a directory, an empty file) throws an error that has
\* no status.
fetchContent(answer, ref, content) ==
    IF answer = "content" THEN [kind |-> "value", content |-> content]
    ELSE IF answer = "noContent" THEN Error(0, "File content not found")
    ELSE IF answer = "notFound" /\ ref # "" THEN [kind |-> "null"]
    ELSE IF answer = "notFound" THEN Error(404, "Not Found")
    ELSE Error(500, "Server Error")

\* The catch block of getFileContent: what it throws for a caught error
ContentCatch(error) ==
    IF error.status = 404 THEN <<"File not found at path", "">>
    ELSE <<"Failed to fetch file content", error.message>>

IdleProviderCall ==
    [pc |-> "idle", op |-> "", caller |-> "", fullName |-> <<>>,
     file |-> <<"", <<>>>>, refToUse |-> "", cached |-> FALSE, sent |-> <<>>,
     result |-> "", thrown |-> <<"none", "">>]

ProviderSettled == pcall.pc \in {"idle", "returned", "threw"}

\* The stored content of a file: '' when the record or its content is
\* missing (undefined), both falsy.
dbGetFileContent(table, repoId, filePath) ==
    LET found == SelectSeq(table,
                    LAMBDA x : x.repoId = repoId /\ x.path = filePath)
    IN  IF found = <<>> THEN "" ELSE found[1].content

\* getFileContent(repoFullName, path, sha) up to its first await: the
\* three argument form takes the third argument as the ref; with a truthy
\* ref the content request at that ref is sent, else the repos.get request.
\* file and cached record which stored file the call is for and whether its
\* content was in the store when the call began.
StartedContentCall(caller, repoId, fullName, path, sha) ==
    [IdleProviderCall EXCEPT
        !.pc = IF sha # "" THEN "fetchRef" ELSE "getRepo",
        !.op = "getFileContent", !.caller = caller, !.fullName = fullName,
        !.file = <<repoId, path>>, !.refToUse = sha,
        !.cached = dbGetFileContent(files, repoId, path) # "",
        !.sent = IF sha # ""
                 THEN <<Request("repos.getContent", fullName, sha)>>
                 ELSE <<Request("repos.get", fullName, "")>>]

\* The call ends in the catch block with what it throws for the error.
ContentThrows(rec, answer, error) ==
    [rec EXCEPT !.pc = "threw", !.sent = Answered(@, answer),
                !.thrown = ContentCatch(error)]

ContentReturns(rec, answer, content) ==
    [rec EXCEPT !.pc = "returned", !.sent = Answered(@, answer),
                !.result = content]

ContentAnswers == {"content", "noContent", "notFound", "failure"}

\* getContent at the given ref answers.
FetchAtRefResponds(answer) ==
    /\ pcall.pc = "fetchRef"
    /\ LET got == fetchContent(answer, pcall.refToUse, "text")
       IN  pcall' =
             IF got.kind = "value" THEN ContentReturns(pcall, answer, got.content)
             ELSE IF got.kind = "null"
             THEN [pcall EXCEPT
                     !.pc = "getRepo",
                     !.sent = Append(Answered(@, answer),
                                     Request("repos.get", pcall.fullName, ""))]
             ELSE ContentThrows(pcall, answer, got)
    /\ last' = [op |-> "FetchAtRefResponds", repoId |-> pcall.file[1]]
    /\ UNCHANGED <<storeVars, remoteTree, remoteIssues, fsync, isync, reader,
                   firstSync, treeVars, multi, query, search, analysis,
                   select, clock, stats,
                   section>>

\* repos.get answers: the content request at the default branch follows.
GetRepoResponds(answer) ==
    /\ pcall.pc = "getRepo"
    /\ pcall' =
         IF answer = "ok"
         THEN [pcall EXCEPT
                 !.pc = "fetchDefault",
                 !.sent = Append(Answered(@, answer),
                                 Request("repos.getContent", pcall.fullName,
                                         DefaultBranch))]
         ELSE IF answer = "notFound"
         THEN ContentThrows(pcall, answer, Error(404, "Not Found"))
         ELSE ContentThrows(pcall, answer, Error(500, "Server Error"))
    /\ last' = [op |-> "GetRepoResponds", repoId |-> pcall.file[1]]
    /\ UNCHANGED <<storeVars, remoteTree, remoteIssues, fsync, isync, reader,
                   firstSync, treeVars, multi, query, search, analysis,
                   select, clock, stats,
                   section>>

\* getContent at the default branch answers; null here is the error
\* 'File not found in the repository', which has no status.
FetchDefaultResponds(answer) ==
    /\ pcall.pc = "fetchDefault"
    /\ LET got == fetchContent(answer, DefaultBranch, "head text")
       IN  pcall' =
             IF got.kind = "value" THEN ContentReturns(pcall, answer, got.content)
             ELSE IF got.kind = "null"
             THEN ContentThrows(pcall, answer,
                                Error(0, "File not found in the repository"))
             ELSE ContentThrows(pcall, answer, got)
    /\ last' = [op |-> "FetchDefaultResponds", repoId |-> pcall.file[1]]
    /\ UNCHANGED <<storeVars, remoteTree, remoteIssues, fsync, isync, reader,
                   firstSync, treeVars, multi, query, search, analysis,
                   select, clock, stats,
                   section>>

\* A caller of the provider client calls getFileContent.
ProviderGetFileContent(fullName, path, sha) ==
    /\ ProviderSettled
    /\ pcall' = StartedContentCall("direct", "", fullName, path, sha)
    /\ last' = [op |-> "ProviderGetFileContent", repoId |-> ""]
    /\ UNCHANGED <<storeVars, remoteTree, remoteIssues, fsync, isync, reader,
                   firstSync, treeVars, multi, query, search, analysis,
                   select, clock, stats,
                   section>>

\* getRepositoryTree(repoFullName, branch) up to its await: the name is
\* split and the getTree request is sent.
ProviderGetRepositoryTree(fullName, branch) ==
    /\ ProviderSettled
    /\ pcall' = [IdleProviderCall EXCEPT
                    !.pc = "getTree", !.op = "getRepositoryTree",
                    !.caller = "direct", !.fullName = fullName,
                    !.refToUse = branch,
                    !.sent = <<Request("git.getTree", fullName, branch)>>]
    /\ last' = [op |-> "ProviderGetRepositoryTree", repoId |-> ""]
    /\ UNCHANGED <<storeVars, remoteTree, remoteIssues, fsync, isync, reader,
                   firstSync, treeVars, multi, query, search, analysis,
                   select, clock, stats,
                   section>>

\* getTree answers: the tree is returned, or the catch block throws.
GetTreeResponds(answer) ==
    /\ pcall.pc = "getTree"
    /\ pcall' =
         IF answer = "ok"
         THEN [pcall EXCEPT !.pc = "returned", !.sent = Answered(@, answer),
                            !.result = "tree"]
         ELSE [pcall EXCEPT !.pc = "threw", !.sent = Answered(@, answer),
                            !.thrown = <<"Failed to fetch repository tree", "">>]
    /\ last' = [op |-> "GetTreeResponds", repoId |-> ""]
    /\ UNCHANGED <<storeVars, remoteTree, remoteIssues, fsync, isync, reader,
                   firstSync, treeVars, multi, query, search, analysis,
                   select, clock, stats,
                   section>>

(***************************************************************************)
(* GitHubSyncService.getFileContent and MonacoEditor.handleFileSelect      *)
(***************************************************************************)
\* repo.fullName of a stored repository, as saveRepo got it from full_name
fullNameOf(r) == IF r = "r1" THEN <<"o", "/", "a">> ELSE <<"o", "/", "b">>

\* files.where('[repoId+path]').equals([repoId, filePath]).first(): the
\* records found, none or the first
getFile(table, repoId, filePath) ==
    LET found == SelectSeq(table,
                    LAMBDA x : x.repoId = repoId /\ x.path = filePath)
    IN  IF found = <<>> THEN <<>> ELSE <<found[1]>>

\* GitHubSyncService.getFileContent(repoFullName, filePath, sha): the call
\* is handed to the provider client; its result or its error is passed on.
ServiceGetFileContent(r, path, sha) ==
    /\ ProviderSettled
    /\ select.pc # "fetching"
    /\ pcall' = StartedContentCall("service", r, fullNameOf(r), path, sha)
    /\ last' = [op |-> "ServiceGetFileContent", repoId |-> r]
    /\ UNCHANGED <<storeVars, remoteTree, remoteIssues, fsync, isync, reader,
                   firstSync, treeVars, multi, query, search, analysis,
                   select, clock, stats,
                   section>>

IdleSelect ==
    [pc |-> "idle", repoId |-> "", path |-> <<>>, cached |-> FALSE,
     calls |-> 0, shown |-> "", toast |-> FALSE]

\* handleFileSelect(filePath) with selectedRepo = r, up to the await of the
\* service call: the repository is read, then the cached content; content
\* that is there is shown, else the file record is read and, when it has a
\* sha, the service is asked for the content.
SelectFile(r, path) ==
    /\ ProviderSettled
    /\ select.pc # "fetching"
    /\ LET content == dbGetFileContent(files, r, path)
           file == getFile(files, r, path)
           began == [IdleSelect EXCEPT !.pc = "done", !.repoId = r,
                                       !.path = path,
                                       !.cached = content # ""]
       IN  IF repos[r] = NoRepo
           THEN select' = [began EXCEPT !.cached = FALSE] /\ UNCHANGED pcall
           ELSE IF content # ""
           THEN select' = [began EXCEPT !.shown = content] /\ UNCHANGED pcall
           ELSE IF file # <<>> /\ file[1].sha # ""
           THEN /\ select' = [began EXCEPT !.pc = "fetching", !.calls = 1]
                /\ pcall' = StartedContentCall("select", r, fullNameOf(r), path,
                                               file[1].sha)
           ELSE select' = began /\ UNCHANGED pcall
    /\ last' = [op |-> "SelectFile", repoId |-> r]
    /\ UNCHANGED <<storeVars, remoteTree, remoteIssues, fsync, isync, reader,
                   firstSync, treeVars, multi, query, search, analysis,
                   clock, stats,
                   section>>

\* The service call returned: the content is written to the store with
\* saveFileContent and shown.
SelectFetched ==
    /\ select.pc = "fetching"
    /\ pcall.pc = "returned"
    /\ files' = saveFileContent(files, select.repoId, select.path, pcall.result)
    /\ select' = [select EXCEPT !.pc = "done", !.shown = pcall.result]
    /\ last' = [op |-> "SelectFetched", repoId |-> select.repoId]
    /\ UNCHANGED <<repos, issues, remoteTree, remoteIssues, fsync, isync,
                   reader, firstSync, treeVars, multi, query, search, analysis,
                   pcall, clock, stats,
                   section>>

\* The service call threw: the catch block of handleFileSelect shows the
\* toast; nothing is written.
SelectFailed ==
    /\ select.pc = "fetching"
    /\ pcall.pc = "threw"
    /\ select' = [select EXCEPT !.pc = "done", !.toast = TRUE]
    /\ last' = [op |-> "SelectFailed", repoId |-> select.repoId]
    /\ UNCHANGED <<storeVars, remoteTree, remoteIssues, fsync, isync, reader,
                   firstSync, treeVars, multi, query, search, analysis,
                   pcall, clock, stats,
                   section>>

(***************************************************************************)
(* Sync statistics: GitHubIssuesSyncService.getSyncStats                   *)
(***************************************************************************)
\* convertToDBIssue with the fields getSyncStats reads: updatedAt is the
\* remote update time, lastSynced is new Date() at the conversion.
convertToDBIssueAt(issue, repoId, now) ==
    [issueId |-> issue.id, repoId |-> repoId, number |-> issue.number,
     state |-> issue.state, updatedAt |-> issue.updatedAt,
     lastSynced |-> now]

\* issues.where('[repoId+issueId]').equals([repoId, issueId])
\*     .modify({...updates, lastSynced: new Date()}) with updates = {state}
modifyIssue(table, repoId, issueId, state, now) ==
    [i \in 1..Len(table) |->
        IF table[i].repoId = repoId /\ table[i].issueId = issueId
        THEN [table[i] EXCEPT !.state = state, !.lastSynced = now]
        ELSE table[i]]

\* getSyncStats(repoId): the counts of getIssuesCount, and lastSynced of the
\* first issue of getIssues(repoId, {limit: 1}), which sorts by updatedAt;
\* null (Absent) when there is none.
getSyncStats(table, repoId) ==
    LET counts == getIssuesCount(table, repoId)
        found == dbGetIssues(table, repoId, [NoFilters EXCEPT !.limit = Given(1)])
    IN  [totalIssues |-> counts.total, openIssues |-> counts.open,
         closedIssues |-> counts.closed,
         lastSynced |-> IF Len(found) > 0 THEN Given(found[1].lastSynced)
                        ELSE Absent]

IdleStats ==
    [pc |-> "idle", repoId |-> "",
     result |-> [totalIssues |-> 0, openIssues |-> 0, closedIssues |-> 0,
                 lastSynced |-> Absent]]

\* A caller reads the statistics of a repository.
GetSyncStats(r) ==
    /\ stats' = [pc |-> "done", repoId |-> r, result |-> getSyncStats(issues, r)]
    /\ last' = [op |-> "GetSyncStats", repoId |-> r]
    /\ UNCHANGED <<storeVars, remoteTree, remoteIssues, fsync, isync, reader,
                   firstSync, treeVars, multi, query, search, analysis,
                   pcall, select, clock,
                   section>>

\* The latest time a run reaches
MaxClock == 2

\* Time passes.
Tick ==
    /\ clock < MaxClock
    /\ clock' = clock + 1
    /\ last' = [op |-> "Tick", repoId |-> ""]
    /\ UNCHANGED <<storeVars, remoteTree, remoteIssues, fsync, isync, reader,
                   firstSync, treeVars, multi, query, search, analysis,
                   pcall, select, stats,
                   section>>

\* The end of a syncRepositoryIssues run over the fetched issues (open
\* ones first): the open issues are converted when the open pagination
\* returns, the closed ones when the closed pagination returns (later:
\* the time that passed in between), then saveIssues replaces the issues of
\* the repository with them.
SaveConvertedIssues(r, fetched, later) ==
    /\ clock + later <= MaxClock
    /\ clock' = clock + later
    /\ issues' = BulkAdd(DeleteWhereRepo(issues, r),
                         [i \in 1..Len(fetched) |->
                             convertToDBIssueAt(fetched[i], r,
                                 IF fetched[i].state = "open" THEN clock
                                 ELSE clock + later)])
    /\ last' = [op |-> "SaveConvertedIssues", repoId |-> r]
    /\ UNCHANGED <<repos, files, remoteTree, remoteIssues, fsync, isync, reader,
                   firstSync, treeVars, multi, query, search, analysis,
                   pcall, select, stats,
                   section>>

\* githubDB.updateIssue(repoId, issueId, {state})
UpdateIssueAt(r, issueId, state) ==
    /\ issues' = modifyIssue(issues, r, issueId, state, clock)
    /\ last' = [op |-> "UpdateIssueAt", repoId |-> r]
    /\ UNCHANGED <<repos, files, remoteTree, remoteIssues, fsync, isync, reader,
                   firstSync, treeVars, callVars>>

(***************************************************************************)
(* Line windows: ServerCodeContextService.extractRelevantSection and the   *)
(* body of the loop of searchCodeContext for one file                      *)
(***************************************************************************)
\* Lines of context taken on each side of the best line
SectionRadius == 15

Max(a, b) == IF a > b THEN a ELSE b

\* The score of a line: the search terms its lower-cased text includes.
\* A line is kept as its text (here its number in the file) and the terms
\* it includes.
LineScore(line, searchTerms) == Cardinality(line.has \cap searchTerms)

\* relevantLines: the lines scoring above 0 with their 0-based index, in
\* file order
RECURSIVE RelevantLinesFrom(_, _, _)
RelevantLinesFrom(lines, i, searchTerms) ==
    IF i > Len(lines) THEN <<>>
    ELSE LET rest == RelevantLinesFrom(lines, i + 1, searchTerms)
             score == LineScore(lines[i], searchTerms)
         IN  IF score > 0
             THEN <<[index |-> i - 1, score |-> score]>> \o rest
             ELSE rest

\* relevantLines.sort((a, b) => b.score - a.score)[0]: the sort is stable,
\* so the first of the lines with the highest score
BestLine(relevantLines) ==
    relevantLines[CHOOSE k \in 1..Len(relevantLines) :
        /\ \A j \in 1..Len(relevantLines) :
              relevantLines[j].score <= relevantLines[k].score
        /\ \A j \in 1..(k - 1) :
              relevantLines[j].score < relevantLines[k].score]

NoSection == [found |-> FALSE, content |-> <<>>, lineNumbers |-> [start |-> 0, end |-> 0]]

\* A window that starts at the best line.
extractRelevantSectionBelow(lines, searchTerms) ==
    LET relevantLines == RelevantLinesFrom(lines, 1, searchTerms)
    IN  IF relevantLines = <<>> THEN NoSection
        ELSE LET bestLine == BestLine(relevantLines)
                 end == Min(Len(lines) - 1, bestLine.index + SectionRadius)
             IN  [found |-> TRUE,
                  content |-> [k \in 1..(end + 1 - bestLine.index) |->
                                  lines[bestLine.index + k].text],
                  lineNumbers |-> [start |-> bestLine.index + 1, end |-> end + 1]]

\* extractRelevantSection(content, searchTerms), content as its lines:
\* null (NoSection) when no line includes a term, else lines.slice(start,
\* end + 1) around the best line and the 1-based line numbers.
extractRelevantSection(lines, searchTerms) ==
    LET relevantLines == RelevantLinesFrom(lines, 1, searchTerms)
    IN  IF relevantLines = <<>> THEN NoSection
        ELSE LET bestLine == BestLine(relevantLines)
                 start == Max(0, bestLine.index - SectionRadius)
                 end == Min(Len(lines) - 1, bestLine.index + SectionRadius)
             IN  [found |-> TRUE,
                  content |-> [k \in 1..(end + 1 - start) |-> lines[start + k].text],
                  lineNumbers |-> [start |-> start + 1, end |-> end + 1]]

\* What calculateFileRelevance is given for a file kept as its lines, its
\* name and path including the terms nameHas: a term is matched in the
\* content once per line that includes it.
AsCodeFile(file, nameHas) ==
    CodeFile("file", nameHas, nameHas,
             [t \in Terms |->
                 Cardinality({i \in 1..Len(file.lines) : t \in file.lines[i].has})],
             TRUE)

NoContext ==
    [pushed |-> FALSE, content |-> <<>>, hasLineNumbers |-> FALSE,
     lineNumbers |-> [start |-> 0, end |-> 0], relevanceScore |-> 0]

\* The body of the loop of searchCodeContext for one file: no context
\* for a score of 0.1 or less; else the context holds the whole content,
\* and for content of more than 2000 characters (file.large) the section
\* and its line numbers when extractRelevantSection returns one.
contextFor(file, nameHas, searchTerms) ==
    LET relevanceScore == calculateFileRelevance(AsCodeFile(file, nameHas),
                                                 searchTerms, {})
        whole == [NoContext EXCEPT
                     !.pushed = TRUE,
                     !.content = [i \in 1..Len(file.lines) |-> file.lines[i].text],
                     !.relevanceScore = relevanceScore]
        relevantSection == extractRelevantSection(file.lines, searchTerms)
    IN  IF relevanceScore <= 2 THEN NoContext
        ELSE IF file.large /\ relevantSection.found
        THEN [whole EXCEPT !.content = relevantSection.content,
                           !.hasLineNumbers = TRUE,
                           !.lineNumbers = relevantSection.lineNumbers]
        ELSE whole

IdleSection ==
    [pc |-> "input", file |-> [lines |-> <<>>, large |-> FALSE],
     nameHas |-> {}, terms |-> {}, result |-> NoSection, context |-> NoContext]

\* extractRelevantSection is applied to the file.
ExtractRelevantSection(searchTerms) ==
    /\ section.pc = "input"
    /\ section' = [section EXCEPT
                      !.pc = "extracted", !.terms = searchTerms,
                      !.result = extractRelevantSection(section.file.lines,
                                                        searchTerms)]
    /\ last' = [op |-> "ExtractRelevantSection", repoId |-> ""]
    /\ UNCHANGED <<storeVars, remoteTree, remoteIssues, fsync, isync, reader,
                   firstSync, treeVars, multi, query, search, analysis,
                   pcall, select, clock, stats>>

\* searchCodeContext reaches the file, found under a name and path that
\* include the terms nameHas, in its loop.
AddContext(nameHas, searchTerms) ==
    /\ section.pc = "input"
    /\ section' = [section EXCEPT
                      !.pc = "searched", !.nameHas = nameHas,
                      !.terms = searchTerms,
                      !.context = contextFor(section.file, nameHas, searchTerms)]
    /\ last' = [op |-> "AddContext", repoId |-> ""]
    /\ UNCHANGED <<storeVars, remoteTree, remoteIssues, fsync, isync, reader,
                   firstSync, treeVars, multi, query, search, analysis,
                   pcall, select, clock, stats>>

(***************************************************************************)
(* Tree reconstruction as a call                                           *)
(***************************************************************************)
\* The entries a file list is drawn from: the entries a sync builds for
\* src, src/a.ts, src/utils, src/utils/b.ts, README and lib/c.ts.
\* It also holds a second entry for src (a file), a directory named "/"
\* and an entry "/x" whose parentPath is "/".
EntryPool ==
    {ToGitHubFile("r1", TreeNested[i]) : i \in 1..Len(TreeNested)} \cup
    {ToGitHubFile("r1", TreeSmall[1]),
     ToGitHubFile("r1", TreeItem(P_lib_c, "blob", "h5")),
     ToGitHubFile("r1", TreeItem(P_src, "blob", "h6")),
     [ToGitHubFile("r1", TreeItem(<<"/">>, "tree", "h7")) EXCEPT
        !.parentPath = <<>>],
     [ToGitHubFile("r1", TreeItem(<<"/", "x">>, "blob", "h8")) EXCEPT
        !.parentPath = <<"/">>]}

\* The lists of at most MaxTreeLen distinct entries, in any order.
InputLists ==
    {l \in UNION {[1..n -> EntryPool] : n \in 0..MaxTreeLen} :
        \A i, j \in 1..Len(l) : l[i] = l[j] => i = j}

BuildTree ==
    /\ treePc = "input"
    /\ treeOut' = buildFileTree(treeIn)
    /\ treePc' = "built"
    /\ last' = [op |-> "BuildTree", repoId |-> "r1"]
    /\ UNCHANGED <<storeVars, remoteTree, remoteIssues, fsync, isync, reader,
                   firstSync, treeIn, callVars>>

(***************************************************************************)
(* Specifications                                                          *)
(***************************************************************************)
InitStore ==
    /\ repos = [r \in RepoIds |-> NoRepo]
    /\ files = <<>>
    /\ issues = <<>>

InitSyncCalls ==
    /\ fsync = [c \in Callers |-> IdleSync]
    /\ isync = IdleIssuesSync
    /\ reader = [repoId |-> "", count |-> 0, roots |-> 0, replacing |-> FALSE]
    /\ firstSync = [r \in RepoIds |-> [runs |-> 0, stored |-> <<>>]]
    /\ last = [op |-> "Init", repoId |-> ""]
    /\ multi = IdleMulti
    /\ query = IdleQuery
    /\ analysis = IdleAnalysis
    /\ pcall = IdleProviderCall
    /\ select = IdleSelect
    /\ clock = 0
    /\ stats = IdleStats

InitCalls ==
    /\ InitSyncCalls
    /\ search = IdleSearch
    /\ section = IdleSection

NoTreeCall ==
    /\ treeIn = <<>>
    /\ treeOut = NoTree
    /\ treePc = "built"

\* File sync, content caching, cache clearing and readers; the store works.
Init ==
    /\ InitStore
    /\ InitCalls
    /\ NoTreeCall
    /\ remoteTree \in [RepoIds -> TreePool]
    /\ remoteIssues = [s \in IssueStates |-> 0]

SyncStep(c) ==
    \/ \E r \in RepoIds : SyncStart(c, r)
    \/ SyncFetchOk(c)
    \/ SyncFetchFail(c)
    \/ SaveFilesDelete(c)
    \/ SaveFilesBulkAdd(c)
    \/ SyncComplete(c)
    \/ SyncCatch(c)

Next ==
    \/ \E c \in Callers : SyncStep(c)
    \/ \E r \in RepoIds, path \in ContentPaths : SaveFileContent(r, path)
    \/ \E r \in RepoIds : ClearRepo(r)
    \/ \E r \in RepoIds : GetFileTree(r)

Spec == Init /\ [][Next]_vars

\* The same, with store operations of syncRepository that may reject.
StoreFailure(c) ==
    \/ SaveFilesDeleteFails(c)
    \/ \E k \in 0..(Len(fsync[c].files) - 1) : SaveFilesBulkAddFails(c, k)
    \/ SyncCompleteFails(c)
    \/ SyncCatchFails(c)

NextFault ==
    \/ \E c \in Callers : SyncStep(c) \/ StoreFailure(c)
    \/ \E r \in RepoIds : ClearRepo(r)

SpecFault == Init /\ [][NextFault]_vars

\* File syncs whose store steps interleave at their await points.
NextOverlap ==
    \/ \E c \in Callers : SyncStep(c)
    \/ \E c \in Callers, r \in RepoIds : SyncStartOverlapping(c, r)

SpecOverlap == Init /\ [][NextOverlap]_vars

\* Issue sync, issue updates and cache clearing.
InitIssues ==
    /\ InitStore
    /\ InitCalls
    /\ NoTreeCall
    /\ remoteTree = [r \in RepoIds |-> <<>>]
    /\ remoteIssues \in [IssueStates -> 0..MaxRemote]

\* The issues updateIssue is called for: the first of each state.
UpdateIds == {<<s, 1>> : s \in IssueStates}

NextIssues ==
    \/ \E r \in RepoIds, so \in BOOLEAN, sc \in BOOLEAN, m \in 1..MaxIssuesOption :
          IssuesSyncStart(r, so, sc, m)
    \/ IssuesFetchPage
    \/ IssuesFetchPageThrows
    \/ SaveIssuesDelete
    \/ SaveIssuesBulkAdd
    \/ \E r \in RepoIds, id \in UpdateIds, st \in IssueStates : UpdateIssue(r, id, st)
    \/ \E r \in RepoIds : ClearRepo(r)

SpecIssues == InitIssues /\ [][NextIssues]_vars

\* Issue syncs of one repository against remotes with more issues than a
\* provider page holds, with budgets up to twice the API page maximum.
LargeRemotes ==
    {[open |-> 6, closed |-> 20],
     [open |-> 6, closed |-> 2],
     [open |-> 2 * ProviderPerPage + 1, closed |-> ProviderPerPage + 1],
     [open |-> ProviderPerPage, closed |-> 0]}

LargeMaxIssues == {10, ApiMaxPerPage, ApiMaxPerPage + 1, 2 * ApiMaxPerPage}

InitIssuesLarge ==
    /\ InitStore
    /\ InitCalls
    /\ NoTreeCall
    /\ remoteTree = [r \in RepoIds |-> <<>>]
    /\ remoteIssues \in LargeRemotes

NextIssuesLarge ==
    \/ \E so \in BOOLEAN, sc \in BOOLEAN, m \in LargeMaxIssues :
          IssuesSyncStart("r1", so, sc, m)
    \/ IssuesFetchPage
    \/ IssuesFetchPageThrows
    \/ SaveIssuesDelete
    \/ SaveIssuesBulkAdd

SpecIssuesLarge == InitIssuesLarge /\ [][NextIssuesLarge]_vars

\* syncMultipleRepositories over lists of repositories, with a store whose
\* saveIssues may reject.
RepoLists == UNION {[1..n -> RepoIds] : n \in 0..MaxRepos}

NextMulti ==
    \/ \E list \in RepoLists, so \in BOOLEAN, sc \in BOOLEAN : MultiStart(list, so, sc)
    \/ MultiNext
    \/ IssuesFetchPage
    \/ IssuesFetchPageThrows
    \/ SaveIssuesDelete
    \/ SaveIssuesBulkAdd
    \/ SaveIssuesDeleteFails
    \/ \E k \in 0..(Len(isync.allIssues) - 1) : SaveIssuesBulkAddFails(k)

SpecMulti == InitIssues /\ [][NextMulti]_vars

\* File syncs, content saves, issue syncs and cache clearing of
\* repositories that have files and issues on the remote.
InitClear ==
    /\ InitStore
    /\ InitCalls
    /\ NoTreeCall
    /\ remoteTree = [r \in RepoIds |-> TreeSmall]
    /\ remoteIssues = [s \in IssueStates |-> 1]

NextClear ==
    \/ \E c \in Callers : SyncStep(c)
    \/ \E r \in RepoIds : SaveFileContent(r, P_readme)
    \/ \E r \in RepoIds, sc \in BOOLEAN :
          IssuesSyncStart(r, TRUE, sc, DefaultMaxIssues)
    \/ IssuesFetchPage
    \/ SaveIssuesDelete
    \/ SaveIssuesBulkAdd
    \/ \E r \in RepoIds : ClearRepo(r)

SpecClear == InitClear /\ [][NextClear]_vars

\* githubDB.getIssues over stored issues that carry update times,
\* assignees and labels.
MaxStored == 3

\* The largest limit and offset a query gives
MaxLimit == 2

QueryIssue(repoId, k, state, updatedAt, assignees, labels) ==
    [issueId |-> <<state, k>>, repoId |-> repoId, number |-> k, state |-> state,
     updatedAt |-> updatedAt, assignees |-> assignees, labels |-> labels]

IssuePool ==
    {QueryIssue("r1", 1, "open", 3, {"ann"}, {"bug"}),
     QueryIssue("r1", 2, "closed", 1, {}, {"bug"}),
     QueryIssue("r1", 3, "open", 3, {}, {}),
     QueryIssue("r1", 4, "open", 2, {"ann"}, {}),
     QueryIssue("r2", 1, "open", 4, {}, {"bug"})}

\* The issue tables of at most MaxStored distinct records, in any order
IssueTables ==
    {t \in UNION {[1..n -> IssuePool] : n \in 0..MaxStored} :
        \A i, j \in 1..Len(t) : t[i] = t[j] => i = j}

OptionalNumbers == {Absent} \cup {Given(v) : v \in 0..MaxLimit}

FilterPool ==
    [state : {"", "open", "closed"}, assignee : {"", "ann"},
     label : {"", "bug"}, limit : OptionalNumbers, offset : OptionalNumbers]

InitQuery ==
    /\ repos = [r \in RepoIds |-> [syncStatus |-> "completed", totalFiles |-> 0]]
    /\ files = <<>>
    /\ issues \in IssueTables
    /\ InitCalls
    /\ NoTreeCall
    /\ remoteTree = [r \in RepoIds |-> <<>>]
    /\ remoteIssues = [s \in IssueStates |-> 0]

NextQuery == \E f \in FilterPool : GetIssues("r1", f)

SpecQuery == InitQuery /\ [][NextQuery]_vars

\* searchCodeContext over projects of a few files.
MaxFiles == 3

\* The largest maxResults of a search
MaxResults == 2

FilePool ==
    {CodeFile("sync.test.ts", {"test", "sync"}, {"test", "sync"},
              [t \in Terms |-> IF t = "test" THEN 5 ELSE IF t = "sync" THEN 1 ELSE 0],
              TRUE),
     CodeFile("config.ts", {"config"}, {"config"},
              [t \in Terms |-> IF t = "config" THEN 2 ELSE 0], TRUE),
     CodeFile("db.ts", {}, {"sync"},
              [t \in Terms |-> IF t = "sync" THEN 2 ELSE 0], TRUE),
     CodeFile("a.ts", {}, {},
              [t \in Terms |-> IF t = "sync" THEN 2 ELSE 0], TRUE),
     CodeFile("test.config.sync.ts", Terms, Terms, [t \in Terms |-> 9], TRUE),
     CodeFile("locked.test.ts", {"test"}, {"test"}, [t \in Terms |-> 3], FALSE)}

\* The projects: at most MaxFiles distinct files, in any directory order
Corpora ==
    {c \in UNION {[1..n -> FilePool] : n \in 0..MaxFiles} :
        \A i, j \in 1..Len(c) : c[i] = c[j] => i = j}

InitSearch ==
    /\ InitStore
    /\ InitSyncCalls
    /\ section = IdleSection
    /\ NoTreeCall
    /\ remoteTree = [r \in RepoIds |-> <<>>]
    /\ remoteIssues = [s \in IssueStates |-> 0]
    /\ search \in {[IdleSearch EXCEPT !.corpus = c] : c \in Corpora}

NextSearch ==
    \E terms \in SUBSET Terms, maxResults \in 0..MaxResults :
        \E mentions \in SUBSET (terms \cap BoostWords) :
            SearchCodeContext(terms, mentions, maxResults)

SpecSearch == InitSearch /\ [][NextSearch]_vars

\* analyzeUserStatement over projects of a few files, with any numbers of
\* keywords, relevant issues and suggestions up to MaxCount.
MaxCount == 4

\* The files of the pool in one directory order
FileOrder ==
    <<CodeFile("a.ts", {}, {},
               [t \in Terms |-> IF t = "sync" THEN 2 ELSE 0], TRUE),
      CodeFile("db.ts", {}, {"sync"},
               [t \in Terms |-> IF t = "sync" THEN 2 ELSE 0], TRUE),
      CodeFile("test.config.sync.ts", Terms, Terms, [t \in Terms |-> 9], TRUE),
      CodeFile("config.ts", {"config"}, {"config"},
               [t \in Terms |-> IF t = "config" THEN 2 ELSE 0], TRUE),
      CodeFile("sync.test.ts", {"test", "sync"}, {"test", "sync"},
               [t \in Terms |-> IF t = "test" THEN 5 ELSE IF t = "sync" THEN 1 ELSE 0],
               TRUE),
      CodeFile("locked.test.ts", {"test"}, {"test"}, [t \in Terms |-> 3], FALSE)>>

InitAnalysis ==
    /\ InitStore
    /\ InitSyncCalls
    /\ section = IdleSection
    /\ NoTreeCall
    /\ remoteTree = [r \in RepoIds |-> <<>>]
    /\ remoteIssues = [s \in IssueStates |-> 0]
    /\ search \in {[IdleSearch EXCEPT !.corpus = SubSeq(FileOrder, 1, n)] :
                      n \in 0..Min(MaxFiles, Len(FileOrder))}

NextAnalysis ==
    \E terms \in SUBSET Terms, keywords \in 0..MaxCount, nIssues \in 0..MaxCount,
       suggestions \in 0..MaxCount :
        \E highIssues \in 0..nIssues, mentions \in SUBSET (terms \cap BoostWords) :
            AnalyzeUserStatement(terms, mentions, keywords, nIssues,
                                 highIssues, suggestions)

SpecAnalysis == InitAnalysis /\ [][NextAnalysis]_vars

\* File content: handleFileSelect, the sync service and the provider
\* client over the files two syncs left in the store.
References ==
    {<<"o", "/", "a">>, <<"o", "a">>, <<"/", "a">>, <<"o", "/">>}

SelectPaths == {P_a, P_src, P_readme, P_lib_c}

InitContent ==
    /\ repos = [r \in RepoIds |->
                  IF r = "r1" THEN [syncStatus |-> "completed", totalFiles |-> 4]
                  ELSE [syncStatus |-> "completed", totalFiles |-> 1]]
    /\ files = BuildFiles("r1", TreeNested) \o BuildFiles("r2", TreeSmall)
    /\ issues = <<>>
    /\ InitCalls
    /\ NoTreeCall
    /\ remoteTree = [r \in RepoIds |-> IF r = "r1" THEN TreeNested ELSE TreeSmall]
    /\ remoteIssues = [s \in IssueStates |-> 0]

ProviderResponds ==
    \/ \E answer \in ContentAnswers : FetchAtRefResponds(answer)
    \/ \E answer \in {"ok", "notFound", "failure"} : GetRepoResponds(answer)
    \/ \E answer \in ContentAnswers : FetchDefaultResponds(answer)
    \/ \E answer \in {"ok", "failure"} : GetTreeResponds(answer)

NextContent ==
    \/ \E r \in RepoIds, path \in SelectPaths : SelectFile(r, path)
    \/ SelectFetched
    \/ SelectFailed
    \/ ProviderResponds
    \/ \E r \in RepoIds, sha \in {"", "h2"} : ServiceGetFileContent(r, P_a, sha)
    \/ \E fullName \in References, sha \in {"", "h2"} :
          ProviderGetFileContent(fullName, P_a, sha)
    \/ \E fullName \in References : ProviderGetRepositoryTree(fullName, "main")

SpecContent == InitContent /\ [][NextContent]_vars

\* Sync statistics over issues that syncs saved and updateIssue changed.
StatsRemote(k, state, updatedAt) ==
    [id |-> k, number |-> k, state |-> state, updatedAt |-> updatedAt]

StatsPool ==
    {StatsRemote(1, "open", 2), StatsRemote(2, "closed", 1),
     StatsRemote(3, "open", 1)}

\* Issues one sync fetches
MaxFetched == 2

\* What a sync has fetched: distinct issues, the open ones first
FetchedLists ==
    {t \in UNION {[1..n -> StatsPool] : n \in 0..MaxFetched} :
        /\ \A i, j \in 1..Len(t) : t[i] = t[j] => i = j
        /\ \A i, j \in 1..Len(t) :
              (t[i].state = "closed" /\ t[j].state = "open") => i > j}

InitStats ==
    /\ InitStore
    /\ InitCalls
    /\ NoTreeCall
    /\ remoteTree = [r \in RepoIds |-> <<>>]
    /\ remoteIssues = [s \in IssueStates |-> 0]

NextStats ==
    \/ Tick
    \/ \E fetched \in FetchedLists, later \in 0..1 :
          SaveConvertedIssues("r1", fetched, later)
    \/ \E k \in 1..3, state \in IssueStates : UpdateIssueAt("r1", k, state)
    \/ GetSyncStats("r1")

SpecStats == InitStats /\ [][NextStats]_vars

\* Line windows over files of at most MaxLines lines: line p includes
\* "sync", line q includes "sync" and "test" (0: no such line); the content
\* may exceed the size threshold of searchCodeContext.
MaxLines == 33

SectionFile(n, p, q, large) ==
    [lines |-> [i \in 1..n |->
                   [text |-> i,
                    has |-> (IF i = p THEN {"sync"} ELSE {})
                              \cup (IF i = q THEN {"sync", "test"} ELSE {})]],
     large |-> large]

SectionTerms == {{"sync"}, {"sync", "test"}, {"config"}}

InitSection ==
    /\ InitStore
    /\ InitSyncCalls
    /\ search = IdleSearch
    /\ NoTreeCall
    /\ remoteTree = [r \in RepoIds |-> <<>>]
    /\ remoteIssues = [s \in IssueStates |-> 0]
    /\ \E n \in 1..MaxLines, large \in BOOLEAN : \E p \in 0..n, q \in 0..n :
          section = [IdleSection EXCEPT !.file = SectionFile(n, p, q, large)]

NextSection ==
    \/ \E searchTerms \in SectionTerms : ExtractRelevantSection(searchTerms)
    \/ \E nameHas \in {{}, {"sync"}}, searchTerms \in SectionTerms :
          AddContext(nameHas, searchTerms)

SpecSection == InitSection /\ [][NextSection]_vars

\* A file sync, an issue sync and cache clears of the two repositories,
\* their steps interleaved at the await points.
NextIsolation ==
    \/ \E c \in Callers : SyncStep(c)
    \/ \E r \in RepoIds : IssuesSyncStart(r, TRUE, FALSE, DefaultMaxIssues)
    \/ IssuesFetchPage
    \/ SaveIssuesDelete
    \/ SaveIssuesBulkAdd
    \/ \E r \in RepoIds : ClearRepo(r)
    \/ \E r \in RepoIds : ClearRepoDuringSync(r)

SpecIsolation == InitClear /\ [][NextIsolation]_vars

\* buildFileTree applied to a list.
InitTree ==
    /\ InitStore
    /\ InitCalls
    /\ remoteTree = [r \in RepoIds |-> <<>>]
    /\ remoteIssues = [s \in IssueStates |-> 0]
    /\ treeIn \in InputLists
    /\ treeOut = NoTree
    /\ treePc = "input"

NextTree == BuildTree

SpecTree == InitTree /\ [][NextTree]_vars

(***************************************************************************)
(* Properties                                                              *)
(***************************************************************************)
\* C1: in a running or finished syncRepositoryIssues call, the pagination
\* of each state has made at most ceil(share / pageSize) + 1 provider calls,
\* share being the budget of the state and pageSize = min(100, share); so
\* the loop terminates. (Checked under SpecIssues.)
C1_PaginationCallBound ==
    isync.pc # "idle" =>
        \A st \in IssueStates :
            LET share2 == Share2(st, isync.syncClosed, isync.maxIssues)
            IN  isync.calls[st] <= CeilDiv(share2, PerPage2(share2)) + 1

\* The stored files of repository r
StoredFiles(r) == WhereRepo(files, r)

\* C2: when a syncRepository of a repository completes and an earlier sync
\* of it completed against the same remote tree, the store holds for that
\* repository the same (path, type, sha, parentPath) tuples as after the
\* first, as many records, and no path twice. (Checked under Spec, where
\* the remote tree of a repository never changes.)
C2_ResyncSameFiles ==
    \A r \in RepoIds :
        (last.op = "SyncComplete" /\ last.repoId = r /\ firstSync[r].runs = 2) =>
            /\ Range(FileTuples(StoredFiles(r))) = Range(FileTuples(firstSync[r].stored))
            /\ Len(StoredFiles(r)) = Len(firstSync[r].stored)
            /\ UniquePaths(StoredFiles(r))

\* C2 witness: a second sync of the nested tree has just completed.
C2_Witness ==
    /\ last.op = "SyncComplete"
    /\ firstSync[last.repoId].runs = 2
    /\ Len(StoredFiles(last.repoId)) = Len(TreeNested)

\* C3: in every state, getIssuesCount(repoId) returns open + closed = total,
\* and total is the number of issue records of the repository. (Checked
\* under SpecIssues.)
C3_CountsAddUp ==
    \A r \in RepoIds :
        LET n == getIssuesCount(issues, r)
        IN  /\ n.open + n.closed = n.total
            /\ n.total = Cardinality({i \in 1..Len(issues) : issues[i].repoId = r})

\* C3 witness: after an updateIssue, a repository has open and closed issues
\* and one whose state is no longer the state it was fetched under.
C3_Witness ==
    /\ last.op = "UpdateIssue"
    /\ getIssuesCount(issues, last.repoId).open >= 1
    /\ getIssuesCount(issues, last.repoId).closed >= 1
    /\ \E i \in 1..Len(issues) :
          issues[i].repoId = last.repoId /\ issues[i].state # issues[i].issueId[1]

\* Each non-empty parentPath is a strict prefix of the entry's path.
ParentPrefix(list) ==
    \A i \in 1..Len(list) :
        list[i].parentPath # <<>> => StrictPrefix(list[i].parentPath, list[i].path)

\* The paths are distinct, no parentPath is "/", and each non-empty
\* parentPath is the path of a directory entry of the list.
ParentsListed(list) ==
    /\ \A i, j \in 1..Len(list) : list[i].path = list[j].path => i = j
    /\ \A i \in 1..Len(list) :
          /\ list[i].parentPath # <<"/">>
          /\ list[i].parentPath # <<>> =>
                \E j \in 1..Len(list) :
                    list[j].path = list[i].parentPath /\ list[j].type = "dir"

\* The depth-first flattening of tree t holds each entry of the list once,
\* and the children of each node are the entries whose parentPath is the
\* node's path.
TreeMatchesList(t, list) ==
    /\ Len(FlattenPaths(t)) = Len(list)
    /\ \A i \in 1..Len(list) :
          Cardinality({k \in 1..Len(FlattenPaths(t)) :
                          FlattenPaths(t)[k] = list[i].path})
            = Cardinality({j \in 1..Len(list) : list[j].path = list[i].path})
    /\ \A n \in 1..Len(t.nodes) :
          /\ {t.nodes[t.children[n][k]] : k \in 1..Len(t.children[n])}
               = {list[j] : j \in {j \in 1..Len(list) :
                                      list[j].parentPath = t.nodes[n].path}}
          /\ \A k1, k2 \in 1..Len(t.children[n]) :
                t.children[n][k1] = t.children[n][k2] => k1 = k2

\* C4 as claimed: for every list in which each non-empty parentPath is a
\* strict prefix of the entry's path, buildFileTree then a depth-first
\* flattening yields the input paths, none dropped or duplicated, and the
\* children of every node are the entries whose parentPath is its path.
C4_AsClaimed ==
    (treePc = "built" /\ ParentPrefix(treeIn)) => TreeMatchesList(treeOut, treeIn)

\* C4 as amended: the same, for the lists that moreover have distinct
\* paths, no parentPath "/", and list the directory entry of every
\* non-empty parentPath. (Checked under SpecTree.)
C4_TreeKeepsEntries ==
    (treePc = "built" /\ ParentPrefix(treeIn) /\ ParentsListed(treeIn)) =>
        TreeMatchesList(treeOut, treeIn)

\* C4 witness: a tree was built from src/utils/b.ts, src/utils, src/a.ts,
\* src given in that order.
C4_Witness ==
    /\ treePc = "built"
    /\ ParentPrefix(treeIn) /\ ParentsListed(treeIn)
    /\ [i \in 1..Len(treeIn) |-> treeIn[i].path] = <<P_b, P_utils, P_a, P_src>>
    /\ FlattenPaths(treeOut) = <<P_src, P_a, P_utils, P_b>>

\* The paths of the nodes at the given positions
NodePaths(t, positions) == [k \in 1..Len(positions) |-> t.nodes[positions[k]].path]

\* The root list of a tree and, for every path, the paths of the children
\* of its nodes.
TreeShape(t) ==
    [roots |-> NodePaths(t, t.tree),
     kids |-> {<<t.nodes[n].path, NodePaths(t, t.children[n])>> :
                  n \in 1..Len(t.nodes)}]

\* The entries of the pool in one fixed order (not the sorted one)
PoolOrder ==
    <<ToGitHubFile("r1", TreeNested[4]), ToGitHubFile("r1", TreeSmall[1]),
      ToGitHubFile("r1", TreeNested[2]), ToGitHubFile("r1", TreeNested[3]),
      ToGitHubFile("r1", TreeItem(P_lib_c, "blob", "h5")),
      ToGitHubFile("r1", TreeNested[1])>>

\* The entries of a list in the order of PoolOrder
Reordered(list) == SelectSeq(PoolOrder, LAMBDA e : e \in Range(list))

\* C5: the tree does not depend on the order of the list. Built from any
\* order of src, src/a.ts, src/utils, src/utils/b.ts, src is the only root,
\* a directory with the two children a.ts and utils, and utils a directory
\* with the single child b.ts; and for any list closed under parents the
\* root list and the parent/child relation are those of the tree built from
\* the same entries in another order. (Checked under SpecTree.)
C5_OrderIndependent ==
    treePc = "built" =>
        /\ Range(treeIn) = {ToGitHubFile("r1", TreeNested[i]) : i \in 1..4} =>
              /\ TreeShape(treeOut).roots = <<P_src>>
              /\ treeOut.nodes[treeOut.tree[1]].type = "dir"
              /\ <<P_src, <<P_a, P_utils>>>> \in TreeShape(treeOut).kids
              /\ <<P_utils, <<P_b>>>> \in TreeShape(treeOut).kids
              /\ \E n \in 1..4 : treeOut.nodes[n].path = P_utils
                                 /\ treeOut.nodes[n].type = "dir"
        /\ (ParentPrefix(treeIn) /\ ParentsListed(treeIn)
              /\ Range(treeIn) \subseteq Range(PoolOrder)) =>
              TreeShape(treeOut) = TreeShape(buildFileTree(Reordered(treeIn)))

\* C5 witness: a tree was built from the four entries given children first.
C5_Witness ==
    /\ treePc = "built"
    /\ [i \in 1..Len(treeIn) |-> treeIn[i].path] = <<P_b, P_a, P_utils, P_src>>
    /\ Len(treeOut.children[treeOut.tree[1]]) = 2

\* The call of caller c has just left its catch block.
JustThrew(c) == last.op = "SyncCatch" /\ fsync[c].pc = "threw"

C8_ReaderNeverSeesEmpty == reader.replacing => reader.count > 0

\* C9: when the bulkAdd of saveFiles rejects after its delete has run, the
\* files that were cached for the repository before the call are still
\* stored. (Checked under SpecFault.)
C9_SaveFilesAllOrNothing ==
    \A c \in Callers :
        (last.op = "SaveFilesBulkAddFails" /\ fsync[c].pc = "catch") =>
            Range(fsync[c].before) \subseteq Range(StoredFiles(fsync[c].repoId))

\* C10: the store holds at most one file record per (repoId, path).
\* (Checked under Spec: syncs that do not overlap, saveFileContent and
\* clearRepo, remote trees that list each path once.)
C10_OneFilePerPath == UniquePaths(files)

\* C10 witness: both repositories hold files, and the one synced last has
\* been synced at least twice.
C10_Witness ==
    /\ last.op = "SyncComplete"
    /\ firstSync[last.repoId].runs = 2
    /\ \A r \in RepoIds : StoredFiles(r) # <<>>
    /\ \E i \in 1..Len(files) : files[i].content # ""

\* C11: also when two syncRepository calls of one repository overlap, the
\* store holds at most one file record per (repoId, path), and a repository
\* whose syncStatus is completed while no sync is in flight has as many
\* stored files as its totalFiles. (Checked under SpecOverlap.)
C11_OverlapKeepsInvariants ==
    /\ UniquePaths(files)
    /\ \A r \in RepoIds :
          (NoSyncInFlight /\ repos[r].syncStatus = "completed") =>
              repos[r].totalFiles = Len(StoredFiles(r))

\* No two records of the table have the same (repoId, issueId).
UniqueIssues(table) ==
    \A i, j \in 1..Len(table) :
        (table[i].repoId = table[j].repoId /\ table[i].issueId = table[j].issueId)
            => i = j

StoredIssues(r, state) ==
    SelectSeq(WhereRepo(issues, r), LAMBDA x : x.state = state)

\* A run with syncOpen, syncClosed and maxIssues = 10 against the remote
\* with 6 open and 20 closed issues has just saved, no page fetch failed.
BudgetScenarioDone ==
    /\ last.op = "SaveIssuesBulkAdd"
    /\ isync.syncOpen /\ isync.syncClosed /\ isync.maxIssues = 10
    /\ remoteIssues = [open |-> 6, closed |-> 20]
    /\ isync.failures = <<>>

C14_ClosedOnlyKeepsOpen ==
    (last.op = "SaveIssuesBulkAdd" /\ ~isync.syncOpen /\ isync.syncClosed) =>
        \A i \in 1..Len(isync.before) :
            isync.before[i].state = "open" =>
                isync.before[i] \in Range(WhereRepo(issues, isync.repoId))

\* The issue records of repository r, as a set
IssueSet(r) == Range(WhereRepo(issues, r))

\* C15: when syncRepositoryIssues has saved, the stored issues of the
\* repository are the issues accumulated in that run, each once: every
\* issue fetched in the run is stored, and every issue cached before the
\* run that was not fetched in it is gone. (Checked under SpecIssues.)
C15_ReplacesWholeIssueSet ==
    last.op = "SaveIssuesBulkAdd" =>
        /\ WhereRepo(issues, isync.repoId) = isync.allIssues
        /\ \A i \in 1..Len(isync.before) :
              isync.before[i] \notin Range(isync.allIssues) =>
                  isync.before[i] \notin IssueSet(isync.repoId)

\* C15 witness: a run for closed issues only has saved while open issues
\* were cached for the repository before it.
C15_Witness ==
    /\ last.op = "SaveIssuesBulkAdd"
    /\ ~isync.syncOpen /\ isync.syncClosed
    /\ isync.allIssues # <<>>
    /\ \E i \in 1..Len(isync.before) : isync.before[i].state = "open"

\* The last page-fetch failure of the current syncRepositoryIssues call
LastFailure == isync.failures[Len(isync.failures)]

\* seq starts with the elements of pre
IsPrefix(pre, seq) == Len(pre) <= Len(seq) /\ SubSeq(seq, 1, Len(pre)) = pre

\* A call in which a page fetch threw does not throw and reports no error;
\* the pagination of the failed state has made no further provider call.
FailureIsAbsorbed ==
    isync.failures # <<>> =>
        /\ isync.pc # "threw" /\ isync.thrown = "none"
        /\ \A k \in 1..Len(isync.events) : isync.events[k].status # "error"
        /\ \A k \in 1..Len(isync.failures) :
              isync.calls[isync.failures[k].state] = isync.failures[k].calls

\* The call has saved and returned with a completed event as its last one.
SavedAndCompleted ==
    /\ isync.pc = "returned"
    /\ isync.events[Len(isync.events)].status = "completed"

C17_OneCallPerRepository ==
    /\ multi.pc # "threw"
    /\ IsPrefix(multi.started, multi.repositories)
    /\ multi.pc = "awaiting" =>
          /\ Len(multi.outcomes) = Len(multi.started) - 1
          /\ isync.repoId = multi.started[Len(multi.started)]
    /\ multi.pc # "awaiting" => Len(multi.outcomes) = Len(multi.started)
    /\ multi.pc = "returned" => multi.started = multi.repositories

\* C17 witness: the call has returned after the sync of the first
\* repository of its list threw and the sync of the second one returned.
C17_Witness ==
    /\ multi.pc = "returned"
    /\ Len(multi.repositories) >= 2
    /\ multi.outcomes[1] = "threw"
    /\ multi.outcomes[2] = "returned"

\* C18: right after clearRepo(repoId) the store holds no repository, file
\* or issue record with that id, whatever syncs and content saves came
\* before. (Checked under SpecClear.)
C18_ClearRepoRemovesAll ==
    last.op = "ClearRepo" =>
        /\ repos[last.repoId] = NoRepo
        /\ WhereRepo(files, last.repoId) = <<>>
        /\ WhereRepo(issues, last.repoId) = <<>>

\* C18 witness: the cleared repository had been file-synced and was the
\* one of the last issue sync, which saved issues; the other repository
\* still has its record, files and issues.
C18_Witness ==
    /\ last.op = "ClearRepo"
    /\ firstSync[last.repoId].stored # <<>>
    /\ isync.repoId = last.repoId /\ isync.pc = "returned"
    /\ isync.allIssues # <<>>
    /\ \E r \in RepoIds :
          /\ r # last.repoId
          /\ repos[r].syncStatus = "completed"
          /\ WhereRepo(files, r) # <<>>
          /\ WhereRepo(issues, r) # <<>>

\* The number of stored issues of the query's repository that pass its
\* state, assignee and label filters
MatchCount ==
    Cardinality({i \in 1..Len(issues) :
                    /\ issues[i].repoId = query.repoId
                    /\ PassesFilters(issues[i], query.filters)})

\* The value of an optional number, 0 when it is not given
ValueOr0(opt) == IF opt.given THEN opt.value ELSE 0

\* The result holds issues of the repository that pass every given filter,
\* each at most once, newest first, and as many of them as are left of the
\* passing issues after the first offset are dropped.
ResultFilteredSortedDropped ==
    /\ \A k \in 1..Len(query.result) :
          /\ query.result[k] \in Range(issues)
          /\ query.result[k].repoId = query.repoId
          /\ PassesFilters(query.result[k], query.filters)
    /\ \A k1, k2 \in 1..Len(query.result) :
          /\ k1 < k2 => query.result[k1].updatedAt >= query.result[k2].updatedAt
          /\ query.result[k1] = query.result[k2] => k1 = k2

\* C19: a getIssues call with a limit >= 0 (0 included) and any offset
\* returns issues of the repository that pass every given filter, newest
\* first: of the passing issues the first `offset` are dropped and at most
\* `limit` of the rest are kept, so the result has at most `limit`
\* elements. (Checked under SpecQuery.)
C19_FilterSortPaginate ==
    (query.pc = "done" /\ query.filters.limit.given) =>
        /\ ResultFilteredSortedDropped
        /\ Len(query.result) <= query.filters.limit.value
        /\ LET rest == MatchCount - ValueOr0(query.filters.offset)
           IN  Len(query.result)
                 = Min(query.filters.limit.value, IF rest > 0 THEN rest ELSE 0)

\* C20: the contexts of a searchCodeContext result are in order of
\* non-increasing relevanceScore, and there are at most maxResults and at
\* most totalMatches of them. (Checked under SpecSearch.)
C20_SortedAndTruncated ==
    search.pc = "done" =>
        LET contexts == search.result.contexts
        IN  /\ \A k1, k2 \in 1..Len(contexts) :
                  k1 < k2 => contexts[k1].relevanceScore >= contexts[k2].relevanceScore
            /\ Len(contexts) <= search.maxResults
            /\ Len(contexts) <= search.result.totalMatches

\* C20 witness: a search with maxResults = 2 matched three files that the
\* project lists lowest score first, and returned the two best.
C20_Witness ==
    /\ search.pc = "done"
    /\ search.maxResults = 2
    /\ search.result.totalMatches = 3
    /\ Len(search.result.contexts) = 2
    /\ search.result.contexts[1].relevanceScore > search.result.contexts[2].relevanceScore
    /\ search.result.contexts[1].fileName = search.corpus[3].name
    /\ search.result.contexts[2].fileName = search.corpus[2].name

\* C21: for every file of the project the search has scored,
\* calculateFileRelevance is between 0 and 1 (0 and 20 units of 0.05), and
\* every context returned has a relevanceScore above 0.1 (2 units) and at
\* most 1, which is the score of a readable file of the project with
\* that name. (Checked under SpecSearch.)
C21_ScoreInRange ==
    search.pc = "done" =>
        /\ \A i \in 1..Len(search.corpus) :
              calculateFileRelevance(search.corpus[i], search.terms,
                                     search.mentions) \in 0..20
        /\ \A k \in 1..Len(search.result.contexts) :
              LET ctx == search.result.contexts[k]
              IN  /\ ctx.relevanceScore > 2
                  /\ ctx.relevanceScore <= 20
                  /\ \E i \in 1..Len(search.corpus) :
                        /\ search.corpus[i].name = ctx.fileName
                        /\ search.corpus[i].readable
                        /\ ctx.relevanceScore
                             = calculateFileRelevance(search.corpus[i],
                                   search.terms, search.mentions)

\* C21 witness: a search left out a readable file that scores exactly 0.1
\* and returned a file whose uncapped score is above 1.
C21_Witness ==
    /\ search.pc = "done"
    /\ \E i \in 1..Len(search.corpus) :
          /\ search.corpus[i].readable
          /\ calculateFileRelevance(search.corpus[i], search.terms,
                                    search.mentions) = 2
          /\ \A k \in 1..Len(search.result.contexts) :
                search.result.contexts[k].fileName # search.corpus[i].name
    /\ \E i \in 1..Len(search.corpus), k \in 1..Len(search.result.contexts) :
          /\ search.result.contexts[k].fileName = search.corpus[i].name
          /\ search.result.contexts[k].relevanceScore = 20
          /\ calculateFileRelevanceUncapped(search.corpus[i], search.terms,
                                            search.mentions) > 20

\* C22: the confidence of a searchCodeContext result is between 0 and 1
\* and is 0 when the result has no context; the confidence of an
\* analyzeUserStatement result is between 0 and 1 (0 and 20 units of
\* 0.05). (Checked under SpecAnalysis, where the search is the one the
\* analysis makes.)
C22_ConfidenceInRange ==
    /\ search.result.confidence.den > 0
    /\ search.result.confidence.num >= 0
    /\ search.result.confidence.num <= search.result.confidence.den
    /\ search.result.contexts = <<>> => search.result.confidence.num = 0
    /\ analysis.confidence \in 0..20

\* C22 witness: an analysis with more keywords, issues and suggestions
\* than the caps count, whose code search returned contexts with a
\* confidence strictly between 0 and 1, has the confidence 1.
C22_Witness ==
    /\ analysis.pc = "done"
    /\ analysis.keywords > 3 /\ analysis.issues > 2 /\ analysis.suggestions > 3
    /\ Len(analysis.codeContexts) >= 2
    /\ analysis.confidence = 20
    /\ calculateConfidenceUncapped(analysis.issues, analysis.highIssues,
            analysis.suggestions, analysis.keywords, analysis.codeContexts) > 20
    /\ search.result.confidence.num > 0
    /\ search.result.confidence.num < search.result.confidence.den

\* The content requests (repos.getContent) of a provider call, in order
ContentFetches(rec) == SelectSeq(rec.sent, LAMBDA q : q.api = "repos.getContent")

\* What getFileContent throws to say that the file was not found: the
\* message of its 404 branch, and the message it throws after the fetch at
\* the default branch found nothing.
NotFoundErrors ==
    {<<"File not found at path", "">>,
     <<"Failed to fetch file content", "File not found in the repository">>}

\* C23: a getFileContent call of the provider client sends at most two
\* content requests. With a ref given the first request is the content
\* request at that ref; content there is returned with no further request;
\* a second content request is sent only after the first was answered
\* not-found, and it asks for the default branch; when that is answered
\* not-found too the call throws a not-found error; a failure other than
\* not-found at the given ref is thrown with no further request.
C23_RefThenDefaultBranch ==
    pcall.op = "getFileContent" =>
        LET fetches == ContentFetches(pcall)
        IN  /\ Len(fetches) <= 2
            /\ pcall.refToUse # "" =>
                 /\ pcall.sent[1].api = "repos.getContent"
                 /\ pcall.sent[1].ref = pcall.refToUse
                 /\ pcall.sent[1].answer = "content" =>
                       /\ pcall.pc = "returned"
                       /\ pcall.result = "text"
                       /\ Len(pcall.sent) = 1
                 /\ Len(fetches) = 2 =>
                       /\ fetches[1].answer = "notFound"
                       /\ fetches[2].ref = DefaultBranch
                 /\ (Len(pcall.sent) >= 2 /\ pcall.sent[1].answer = "notFound"
                        /\ pcall.sent[2].answer = "ok") => Len(fetches) = 2
                 /\ (Len(fetches) = 2 /\ fetches[2].answer = "notFound") =>
                       /\ pcall.pc = "threw"
                       /\ pcall.thrown \in NotFoundErrors
                 /\ pcall.sent[1].answer \in {"noContent", "failure"} =>
                       /\ pcall.pc = "threw"
                       /\ pcall.thrown[1] = "Failed to fetch file content"
                       /\ Len(pcall.sent) = 1

\* C23 witness: a call with a ref whose content request at the ref and
\* whose content request at the default branch were both answered
\* not-found, and which has thrown.
C23_Witness ==
    /\ pcall.op = "getFileContent" /\ pcall.refToUse # ""
    /\ pcall.pc = "threw"
    /\ Len(ContentFetches(pcall)) = 2
    /\ ContentFetches(pcall)[1].answer = "notFound"
    /\ ContentFetches(pcall)[2].answer = "notFound"

\* C24 as claimed: a GitHubSyncService.getFileContent call for a file whose
\* content is in the store sends no request to the provider.
C24_AsClaimed ==
    (pcall.caller = "service" /\ pcall.cached) => pcall.sent = <<>>

\* C24: handleFileSelect reads the store first: a selection that finds
\* content there shows it and makes no service call; the provider is called
\* for a selection only when the store had no content; and when the fetch
\* returns, the fetched content is in the store before the selection ends.
C24_SelectCacheFirst ==
    /\ (select.pc # "idle" /\ select.cached) =>
          /\ select.calls = 0
          /\ select.pc = "done"
          /\ select.shown = dbGetFileContent(files, select.repoId, select.path)
          /\ select.shown # ""
    /\ (pcall.caller = "select" /\ select.pc = "fetching") =>
          /\ ~pcall.cached
          /\ ~select.cached
          /\ pcall.file = <<select.repoId, select.path>>
    /\ last.op = "SelectFetched" =>
          /\ dbGetFileContent(files, select.repoId, select.path) = pcall.result
          /\ pcall.result # ""
          /\ select.shown = pcall.result

\* C24 witness: a file is selected again after an earlier selection fetched
\* it: the content is found in the store and no service call is made.
C24_Witness ==
    /\ last.op = "SelectFile"
    /\ select.cached /\ select.calls = 0
    /\ pcall.caller = "select" /\ pcall.pc = "returned"
    /\ pcall.file = <<select.repoId, select.path>>
    /\ select.shown = pcall.result

\* A reference that is not owner/name: no '/', or an empty segment
Malformed(fullName) ==
    ~ /\ Len(Split(fullName)) = 2
      /\ Split(fullName)[1] # <<>>
      /\ Split(fullName)[2] # <<>>

\* C25: a provider call (getFileContent, getRepositoryTree) that is given a
\* malformed repository reference has thrown and has sent no request.
C25_MalformedRejected ==
    (pcall.pc # "idle" /\ Malformed(pcall.fullName)) =>
        /\ pcall.sent = <<>>
        /\ pcall.pc = "threw"

\* The newest lastSynced among the stored issues of a repository
NewestLastSynced(r) ==
    LET all == WhereRepo(issues, r)
    IN  IF all = <<>> THEN Absent
        ELSE Given(CHOOSE t \in {all[i].lastSynced : i \in 1..Len(all)} :
                      \A i \in 1..Len(all) : all[i].lastSynced <= t)

\* C26: what getSyncStats has just returned for a repository: lastSynced
\* is the newest lastSynced among its stored issues (null when it has
\* none), and the counts are those of getIssuesCount.
C26_NewestLastSynced ==
    last.op = "GetSyncStats" =>
        /\ stats.result.lastSynced = NewestLastSynced(stats.repoId)
        /\ stats.result.totalIssues = getIssuesCount(issues, stats.repoId).total
        /\ stats.result.openIssues = getIssuesCount(issues, stats.repoId).open
        /\ stats.result.closedIssues = getIssuesCount(issues, stats.repoId).closed

\* The requests of a pagination of the running or last issue sync
RequestsFor(state) == SelectSeq(isync.requests, LAMBDA q : q.state = state)

\* C27: within the pagination of one state the k-th provider request asks
\* for page k, and the issues accumulated for the state hold no remote
\* issue twice.
C27_KthCallRequestsPageK ==
    /\ \A s \in IssueStates :
          \A k \in 1..Len(RequestsFor(s)) : RequestsFor(s)[k].page = k
    /\ \A i, j \in 1..Len(isync.issues) :
          isync.issues[i].id = isync.issues[j].id => i = j

\* Twice the budget of a state in the running or last issue sync: 0 for a
\* state that is not requested
Budget2(state) ==
    IF (state = "open" /\ isync.syncOpen) \/ (state = "closed" /\ isync.syncClosed)
    THEN Share2(state, isync.syncClosed, isync.maxIssues)
    ELSE 0

\* C28: at every point of a syncRepositoryIssues run the issues
\* accumulated for a state are at most the budget of that state and the
\* issues to save are at most maxIssues; when the run has saved, the
\* issues stored for the repository in each state are at most that state's
\* budget and at most maxIssues in all.
C28_WithinBudget ==
    /\ isync.pc = "fetch" => 2 * Len(isync.issues) <= Budget2(isync.state)
    /\ \A s \in IssueStates :
          2 * Len(SelectSeq(isync.allIssues, LAMBDA x : x.state = s)) <= Budget2(s)
    /\ Len(isync.allIssues) <= isync.maxIssues
    /\ last.op = "SaveIssuesBulkAdd" =>
          /\ \A s \in IssueStates :
                2 * Len(StoredIssues(isync.repoId, s)) <= Budget2(s)
          /\ Len(WhereRepo(issues, isync.repoId)) <= isync.maxIssues

\* C28 witness: a run for both states with an odd maxIssues, against a
\* remote with more issues of each state than the budget, has saved as
\* many issues of each state as the budget allows (50 of 50.5).
C28_Witness ==
    /\ last.op = "SaveIssuesBulkAdd"
    /\ isync.syncOpen /\ isync.syncClosed
    /\ isync.maxIssues = ApiMaxPerPage + 1
    /\ \A s \in IssueStates :
          /\ 2 * remoteIssues[s] > Budget2(s)
          /\ 2 * Len(StoredIssues(isync.repoId, s)) = Budget2(s) - 1

\* C29: a sync that requests one state only hands the whole of maxIssues
\* to the pagination of that state.
C29_SingleStateFullBudget ==
    (isync.pc = "fetch" /\ ~(isync.syncOpen /\ isync.syncClosed)) =>
        Budget2(isync.state) = 2 * isync.maxIssues

\* The events of a syncRepository call with one of the given statuses
EventsWith(c, statuses) ==
    SelectSeq(fsync[c].events, LAMBDA ev : ev.status \in statuses)

C31_IssueEventsInOrder ==
    LET events == isync.events
        terminal == SelectSeq(events, LAMBDA ev : ev.status \in {"completed", "error"})
    IN  /\ events # <<>> => events[1].status = "starting"
        /\ Len(terminal) <= 1
        /\ isync.pc \in {"returned", "threw"} =>
              /\ Len(terminal) = 1
              /\ events[Len(events)] = terminal[1]
        /\ \A i \in 1..(Len(events) - 1) :
              events[i].issuesProcessed <= events[i + 1].issuesProcessed

\* parent is the path with its last '/'-separated segment removed
IsParentOf(parent, path) ==
    IF \A i \in 1..Len(path) : path[i] # "/" THEN parent = <<>>
    ELSE \E n \in 1..Len(path) :
            /\ path[n] = "/"
            /\ \A j \in (n + 1)..Len(path) : path[j] # "/"
            /\ Len(parent) = n - 1
            /\ \A j \in 1..(n - 1) : parent[j] = path[j]

\* C32: when a syncRepository call has returned, every stored file of the
\* repository has as parentPath its path without the last segment ('' for
\* a root entry), and every non-empty parentPath is the path of exactly
\* one stored directory of the repository. (Checked under Spec, whose
\* remote trees list every directory on the way to an entry.)
C32_ParentPathsResolve ==
    \A c \in Callers :
        (last.op = "SyncComplete" /\ fsync[c].pc = "returned") =>
            LET stored == StoredFiles(fsync[c].repoId)
            IN  \A i \in 1..Len(stored) :
                    /\ IsParentOf(stored[i].parentPath, stored[i].path)
                    /\ stored[i].parentPath # <<>> =>
                          Cardinality({j \in 1..Len(stored) :
                              /\ stored[j].type = "dir"
                              /\ stored[j].path = stored[i].parentPath}) = 1

\* C32 witness: a sync has returned and has stored src/utils/b.ts with the
\* parent src/utils, a directory whose own parent is src.
C32_Witness ==
    \E c \in Callers :
        /\ last.op = "SyncComplete" /\ fsync[c].pc = "returned"
        /\ \E i, j \in 1..Len(StoredFiles(fsync[c].repoId)) :
              LET stored == StoredFiles(fsync[c].repoId)
              IN  /\ stored[i].path = P_b /\ stored[i].parentPath = P_utils
                  /\ stored[j].path = P_utils /\ stored[j].type = "dir"
                  /\ stored[j].parentPath = P_src

\* C33: for a file with a line that includes a search term,
\* extractRelevantSection returns the 1-based inclusive range start..end
\* with start = max(1, b - 15) and end = min(lineCount, b + 15), b being
\* the 1-based number of the first line among those that include the most
\* terms; 1 <= start <= b <= end <= lineCount, the content is exactly the
\* lines start..end, and there are at most 31 of them. (Checked under
\* SpecSection.)
C33_WindowAroundBestLine ==
    section.pc = "extracted" =>
        LET lines == section.file.lines
            lineCount == Len(lines)
            matching(i) == Cardinality(lines[i].has \cap section.terms)
            result == section.result
            start == result.lineNumbers.start
            end == result.lineNumbers.end
        IN  (\E i \in 1..lineCount : matching(i) > 0) =>
                LET b == CHOOSE i \in 1..lineCount :
                            /\ \A j \in 1..lineCount : matching(j) <= matching(i)
                            /\ \A j \in 1..(i - 1) : matching(j) < matching(i)
                IN  /\ result.found
                    /\ start = Max(1, b - 15)
                    /\ end = Min(lineCount, b + 15)
                    /\ 1 <= start /\ start <= b /\ b <= end /\ end <= lineCount
                    /\ result.content = [k \in 1..(end - start + 1) |->
                                            lines[start + k - 1].text]
                    /\ Len(result.content) <= 31

\* A window cut on neither side: 31 lines strictly inside the file, around
\* a best line that is not the first line with a term.
C33_Witness ==
    /\ section.pc = "extracted"
    /\ section.result.found
    /\ section.result.lineNumbers = [start |-> 2, end |-> 32]
    /\ Len(section.file.lines) = 33
    /\ section.file.lines[3].has # {}
    /\ section.terms = {"sync", "test"}

\* C34: a context pushed by searchCodeContext for a file whose content
\* exceeds 2000 characters carries a non-empty line window: lineNumbers is
\* set and the content is the lines of that window, also when the file
\* qualified through its name or path only. (Checked under SpecSection.)
C34_LargeFilesCarryWindow ==
    (section.pc = "searched" /\ section.context.pushed /\ section.file.large) =>
        LET context == section.context
            start == context.lineNumbers.start
            end == context.lineNumbers.end
        IN  /\ context.hasLineNumbers
            /\ 1 <= start /\ start <= end /\ end <= Len(section.file.lines)
            /\ context.content = [k \in 1..(end - start + 1) |->
                                     section.file.lines[start + k - 1].text]

\* C35: the steps of a syncRepository call up to its tree fetch, and those
\* of a call whose tree fetch failed (the failure and the catch block),
\* leave every file record as it is, with its path and its cached content,
\* and every issue record; of the repository records only that of the
\* repository being synced may change. (Checked under Spec.)
C35_FetchFailureKeepsFiles ==
    [][\A c \in Callers :
          (/\ fsync'[c] # fsync[c]
           /\ fsync'[c].pc = "fetch" \/ fsync'[c].error = "fetch") =>
              /\ files' = files
              /\ issues' = issues
              /\ \A r \in RepoIds \ {fsync'[c].repoId} : repos'[r] = repos[r]]_vars

\* C35 witness: the tree fetch of a re-sync failed and the call has thrown;
\* the repository still holds the files of its earlier sync, one of them
\* with cached content, its record is in error and the record of the other
\* repository is completed.
C35_Witness ==
    \E c \in Callers :
        /\ JustThrew(c) /\ fsync[c].error = "fetch"
        /\ firstSync[fsync[c].repoId].runs >= 1
        /\ StoredFiles(fsync[c].repoId) = fsync[c].before
        /\ \E i \in 1..Len(fsync[c].before) : fsync[c].before[i].content # ""
        /\ repos[fsync[c].repoId].syncStatus = "error"
        /\ \E r \in RepoIds \ {fsync[c].repoId} : repos[r].syncStatus = "completed"

\* C36: when a syncRepository call has just returned or thrown, the record
\* of its repository has syncStatus completed or error, not syncing, also
\* when a store operation of the call rejected. (Checked under SpecFault.)
C36_NeverLeftSyncing ==
    \A c \in Callers :
        (/\ last.op \in {"SyncComplete", "SyncCatch", "SyncCatchFails"}
         /\ last.repoId = fsync[c].repoId
         /\ fsync[c].pc \in {"returned", "threw"}) =>
            repos[fsync[c].repoId].syncStatus \in {"completed", "error"}

\* C37: right after a syncRepository call has returned, no stored file of
\* its repository carries content: content cached through saveFileContent
\* before the call is gone, also for a file whose sha is the same on the
\* remote. (Checked under Spec.)
C37_SyncDropsCachedContent ==
    \A c \in Callers :
        (last.op = "SyncComplete" /\ fsync[c].pc = "returned") =>
            \A i \in 1..Len(files) :
                files[i].repoId = fsync[c].repoId => files[i].content = ""

\* C37 witness: a re-sync has returned for a repository one of whose files
\* had cached content when the call began; the file is stored again with
\* the same sha and without content.
C37_Witness ==
    \E c \in Callers :
        /\ last.op = "SyncComplete" /\ fsync[c].pc = "returned"
        /\ \E i \in 1..Len(fsync[c].before), j \in 1..Len(files) :
              /\ fsync[c].before[i].content # ""
              /\ files[j].repoId = fsync[c].repoId
              /\ files[j].path = fsync[c].before[i].path
              /\ files[j].sha = fsync[c].before[i].sha
              /\ files[j].content = ""

\* C38: a saveFileContent(repoId, path, content) step changes nothing but
\* the content field of the file records with that (repoId, path) and adds
\* no record; when there is no such record the store is unchanged and
\* getFileContent(repoId, path) still finds nothing afterwards, else it
\* returns the saved content. (Checked under Spec.)
C38_SaveContentFrame ==
    [][\A r \in RepoIds, path \in ContentPaths :
          SaveFileContent(r, path) =>
              LET hit == {i \in 1..Len(files) :
                             files[i].repoId = r /\ files[i].path = path}
              IN  /\ repos' = repos
                  /\ issues' = issues
                  /\ Len(files') = Len(files)
                  /\ \A i \in 1..Len(files) :
                        IF i \in hit
                        THEN files'[i] = [files[i] EXCEPT !.content = "text"]
                        ELSE files'[i] = files[i]
                  /\ hit = {} => /\ files' = files
                                 /\ dbGetFileContent(files', r, path) = ""
                  /\ hit # {} => dbGetFileContent(files', r, path) = "text"]_vars

\* C38 witness: after a saveFileContent the repository holds a file with
\* the saved content and another file without content.
C38_Witness ==
    /\ last.op = "SaveFileContent"
    /\ \E i, j \in 1..Len(files) :
          /\ files[i].repoId = last.repoId /\ files[i].content = "text"
          /\ files[j].repoId = last.repoId /\ files[j].content = ""
          /\ files[j].type = "file"

\* The operations that make up syncRepository, syncRepositoryIssues and
\* clearRepo
RepoOps ==
    {"SyncStart", "SyncStartOverlapping", "SyncFetchOk", "SyncFetchFail",
     "SaveFilesDelete", "SaveFilesBulkAdd", "SyncComplete", "SyncCatch",
     "IssuesSyncStart", "IssuesFetchPage", "IssuesFetchPageThrows",
     "SaveIssuesDelete", "SaveIssuesBulkAdd", "ClearRepo"}

\* C39: a step of syncRepository, syncRepositoryIssues or clearRepo for a
\* repository leaves the repository record, the file records and the issue
\* records of every other repository as they are, whatever the steps
\* interleave with. (Checked under SpecIsolation; the steps of two file
\* syncs that overlap are those of SpecOverlap.)
C39_OtherRepositoriesUntouched ==
    [][last'.op \in RepoOps =>
          \A other \in RepoIds \ {last'.repoId} :
              /\ repos'[other] = repos[other]
              /\ WhereRepo(files', other) = WhereRepo(files, other)
              /\ WhereRepo(issues', other) = WhereRepo(issues, other)]_vars

\* C39 witness: a repository has just been cleared while a file sync of the
\* other repository is between its delete and its bulkAdd, and the other
\* repository still has its record, in status syncing, and its issues.
C39_Witness ==
    /\ last.op = "ClearRepo"
    /\ repos[last.repoId] = NoRepo
    /\ \E c \in Callers, other \in RepoIds \ {last.repoId} :
          /\ fsync[c].pc = "bulkAdd" /\ fsync[c].repoId = other
          /\ repos[other].syncStatus = "syncing"
          /\ WhereRepo(issues, other) # <<>>

====
